---- MODULE Spec2Model ----
(***************************************************************************)
(* hyprwatch: the watch loop of src/main.rs, the event decoder, the config *)
(* parser and the query channel of src/hypr.rs, and the workspace and      *)
(* client projections of src/main.rs.                                      *)
(*                                                                         *)
(* Text is a sequence of characters.  A character that can be written in a *)
(* string of this language is the one-character string of itself: the      *)
(* printable ASCII characters but the backtick, and "\t", "\n", "\f" and   *)
(* "\r".  Every other character is the string "<U+hhhh>" of its code point *)
(* in upper-case hexadecimal, four digits or more.  Chars("abc") is the    *)
(* text of a string of writable characters.                                *)
(*                                                                         *)
(* What travels on the event socket is bytes: a byte is a number in        *)
(* 0..255, and a read counts and cuts bytes.  Bytes("abc") is the bytes of *)
(* a string of writable ASCII characters, from_utf8 turns bytes into text. *)
(*                                                                         *)
(* Option<T> is a sequence of length 0 (None) or 1 (Some).  A u64 is a     *)
(* triple of limbs in base 10^9, most significant first, so that the whole *)
(* range of the type is there; an i64 is a sign and a magnitude.           *)
(***************************************************************************)
EXTENDS Integers, Sequences, FiniteSets, TLC

\* ------------------------------------------------------------------ bounds
\* Number of event records the compositor writes on the event socket.
MaxSends == 2
\* Lengths of the lists a query returns, and of the config list, in the
\* projection specifications.
MaxMonitors == 2
MaxWorkspaces == 2
MaxConfig == 2
\* Length of the client list a query returns.
MaxClients == 2
\* Number of resources one batch request asks for.
MaxRequests == 3

\* ------------------------------------------------------- program constants
\* let mut buf = [0; 256]
BufSize == 256
\* `return` from main
ExitOk == 0
\* exit(-1), as the parent process sees it
ExitFail == 255
\* exit status of a Rust process whose main thread panicked
ExitPanic == 101

\* ----------------------------------------------------------------- options
None == <<>>
Some(x) == <<x>>
IsSome(o) == Len(o) = 1
IsNone(o) == Len(o) = 0
Unwrap(o) == o[1]
\* Option::and_then
AndThen(o, F(_)) == IF IsNone(o) THEN None ELSE F(Unwrap(o))

\* Result<T>
Ok(v) == [ok |-> TRUE, val |-> v]
Err(e) == [ok |-> FALSE, err |-> e]

\* -------------------------------------------------------------------- text
NL == "\n"
\* the text of a string literal
Chars(s) == <<>> \o [i \in 1..Len(s) |-> SubSeq(s, i, i)]

\* s[from..] (1-based, from may be Len(s)+1)
Drop(s, from) == SubSeq(s, from, Len(s))
\* the text has pattern p at position i
At(s, i, p) == i + Len(p) - 1 <= Len(s) /\ SubSeq(s, i, i + Len(p) - 1) = p
\* str::starts_with
StartsWith(s, p) == At(s, 1, p)
\* str::strip_prefix
StripPrefix(s, p) == IF StartsWith(s, p) THEN Some(Drop(s, Len(p) + 1)) ELSE None
\* str::find: the 1-based index of the first occurrence of pattern p, 0 if none
Least(hits) == IF hits = {} THEN 0 ELSE CHOOSE i \in hits : \A j \in hits : i <= j
Find(s, p) ==
  Least({ i \in 1..(Len(s) - Len(p) + 1) :
            (p = <<>> \/ s[i] = p[1]) /\ SubSeq(s, i, i + Len(p) - 1) = p })

\* str::split: non-overlapping matches of a non-empty pattern, left to right;
\* n matches give n+1 pieces, empty pieces included
RECURSIVE Split(_, _)
SplitAt(s, p, i) ==
  IF i = 0 THEN <<s>> ELSE <<SubSeq(s, 1, i - 1)>> \o Split(Drop(s, i + Len(p)), p)
Split(s, p) == SplitAt(s, p, Find(s, p))

\* Iterator::filter(|s| !s.is_empty())
RECURSIVE NonEmpty(_)
NonEmpty(ss) ==
  IF ss = <<>> THEN <<>>
  ELSE IF Head(ss) = <<>> THEN NonEmpty(Tail(ss))
  ELSE <<Head(ss)>> \o NonEmpty(Tail(ss))

\* char::is_whitespace: the characters with the Unicode property White_Space
IsSpace(c) ==
  c \in {"\t", "\n", "<U+000B>", "\f", "\r", " ", "<U+0085>", "<U+00A0>",
         "<U+1680>", "<U+2000>", "<U+2001>", "<U+2002>", "<U+2003>",
         "<U+2004>", "<U+2005>", "<U+2006>", "<U+2007>", "<U+2008>",
         "<U+2009>", "<U+200A>", "<U+2028>", "<U+2029>", "<U+202F>",
         "<U+205F>", "<U+3000>"}
\* str::trim_start, str::trim_end, str::trim
RECURSIVE TrimStart(_)
TrimStart(s) == IF s # <<>> /\ IsSpace(Head(s)) THEN TrimStart(Tail(s)) ELSE s
RECURSIVE TrimEnd(_)
TrimEnd(s) ==
  IF s # <<>> /\ IsSpace(s[Len(s)]) THEN TrimEnd(SubSeq(s, 1, Len(s) - 1)) ELSE s
Trim(s) == TrimEnd(TrimStart(s))

\* the character of a code point
RECURSIVE Hex(_, _)
Hex(n, width) ==
  IF n = 0 /\ width <= 0 THEN ""
  ELSE Hex(n \div 16, width - 1) \o SubSeq("0123456789ABCDEF", (n % 16) + 1, (n % 16) + 1)
\* the writable characters U+0020..U+005F and U+0061..U+007E
Writable32 == Chars(" !\"#$%&'()*+,-./0123456789:;<=>?@ABCDEFGHIJKLMNOPQRSTUVWXYZ[\\]^_")
Writable97 == Chars("abcdefghijklmnopqrstuvwxyz{|}~")
Named(code) == "<U+" \o Hex(code, 4) \o ">"
Ascii ==
  [code \in 0..127 |->
     IF code = 9 THEN "\t" ELSE IF code = 10 THEN "\n"
     ELSE IF code = 12 THEN "\f" ELSE IF code = 13 THEN "\r"
     ELSE IF code \in 32..95 THEN Writable32[code - 31]
     ELSE IF code \in 97..126 THEN Writable97[code - 96]
     ELSE Named(code)]
CharOf(code) == IF code < 128 THEN Ascii[code] ELSE Named(code)

\* ------------------------------------------------------- String::from_utf8
\* str::as_bytes of a string of writable ASCII characters
CodeOf(c) == CHOOSE code \in 0..127 : Ascii[code] = c
Bytes(s) == <<>> \o [i \in 1..Len(s) |-> CodeOf(SubSeq(s, i, i))]
\* a continuation byte, 10xxxxxx
IsCont(b) == b \in 128..191
\* the number of bytes of the character a byte opens, 0 when it opens none:
\* C0, C1 and F5..FF stand in no UTF-8 text
Width(b) ==
  IF b < 128 THEN 1 ELSE IF b \in 194..223 THEN 2
  ELSE IF b \in 224..239 THEN 3 ELSE IF b \in 240..244 THEN 4 ELSE 0
\* the second byte c of a character that b opens: no overlong form, no
\* surrogate, nothing above U+10FFFF
SecondOk(b, c) ==
  IF b = 224 THEN c \in 160..191 ELSE IF b = 237 THEN c \in 128..159
  ELSE IF b = 240 THEN c \in 144..191 ELSE IF b = 244 THEN c \in 128..143
  ELSE c \in 128..191
\* the byte at i is part of a well-formed character: a continuation byte
\* follows the byte that opens its character, an opening byte has all its
\* continuation bytes behind it
WellFormedAt(buf, i) ==
  IF buf[i] < 128 THEN TRUE
  ELSE IF IsCont(buf[i])
  THEN \E k \in 1..3 : /\ i - k >= 1 /\ Width(buf[i - k]) > k
                       /\ \A m \in 1..(k - 1) : IsCont(buf[i - m])
  ELSE /\ Width(buf[i]) > 0 /\ i + Width(buf[i]) - 1 <= Len(buf)
       /\ \A k \in 1..(Width(buf[i]) - 1) : IsCont(buf[i + k])
       /\ SecondOk(buf[i], buf[i + 1])
\* the code point of the character the byte at i opens
CodeAt(buf, i) ==
  IF Width(buf[i]) = 1 THEN buf[i]
  ELSE IF Width(buf[i]) = 2 THEN (buf[i] - 192) * 64 + (buf[i + 1] - 128)
  ELSE IF Width(buf[i]) = 3
  THEN (buf[i] - 224) * 4096 + (buf[i + 1] - 128) * 64 + (buf[i + 2] - 128)
  ELSE (buf[i] - 240) * 262144 + (buf[i + 1] - 128) * 4096
       + (buf[i + 2] - 128) * 64 + (buf[i + 3] - 128)
\* the character the byte at i opens, "" at a continuation byte
Opened(buf, i) ==
  IF buf[i] < 128 THEN Ascii[buf[i]]
  ELSE IF IsCont(buf[i]) THEN "" ELSE Named(CodeAt(buf, i))
IsChar(c) == c # ""
\* the characters of well-formed bytes, in order
Decode(buf) == SelectSeq([i \in 1..Len(buf) |-> Opened(buf, i)], IsChar)
\* String::from_utf8: the text of the bytes, None when they are not UTF-8
from_utf8(buf) ==
  IF \A i \in 1..Len(buf) : WellFormedAt(buf, i) THEN Some(Decode(buf)) ELSE None

\* ---------------------------------------------------------------- integers
Digits == Chars("0123456789")
IsDigit(c) == \E i \in 1..10 : Digits[i] = c
DigitVal(c) == (CHOOSE i \in 1..10 : Digits[i] = c) - 1
\* the value of at most nine decimal digits
RECURSIVE DecVal(_, _)
DecVal(s, acc) == IF s = <<>> THEN acc ELSE DecVal(Tail(s), acc * 10 + DigitVal(Head(s)))
\* the digits without their leading zeros
RECURSIVE StripZeros(_)
StripZeros(d) == IF d # <<>> /\ Head(d) = "0" THEN StripZeros(Tail(d)) ELSE d

\* the base of the limbs
Limb == 1000000000
\* a small number as a u64
U64(n) == <<0, 0, n>>
\* u64::MAX = 2^64 - 1, i64::MAX = 2^63 - 1 and |i64::MIN| = 2^63
U64Max == <<18, 446744073, 709551615>>
I64Max == <<9, 223372036, 854775807>>
I64MinMag == <<9, 223372036, 854775808>>
\* Ord::cmp on two u64: a <= b
U64Le(a, b) ==
  \/ a[1] < b[1]
  \/ a[1] = b[1] /\ a[2] < b[2]
  \/ a[1] = b[1] /\ a[2] = b[2] /\ a[3] <= b[3]
\* the limbs of at most 27 decimal digits
Limbs(d) ==
  LET p == [i \in 1..(27 - Len(d)) |-> "0"] \o d
  IN <<DecVal(SubSeq(p, 1, 9), 0), DecVal(SubSeq(p, 10, 18), 0),
       DecVal(SubSeq(p, 19, 27), 0)>>
\* the digits are a number of at most max
Fits(d, max) == Len(StripZeros(d)) <= 20 /\ U64Le(Limbs(StripZeros(d)), max)

\* u64::from_str: an optional '+', then one or more decimal digits; an error
\* when the value is above u64::MAX
ParseU64(s) ==
  LET d == IF s # <<>> /\ Head(s) = "+" THEN Tail(s) ELSE s
  IN IF d # <<>> /\ (\A i \in 1..Len(d) : IsDigit(d[i])) /\ Fits(d, U64Max)
     THEN Some(Limbs(StripZeros(d))) ELSE None
\* an i64 of sign and magnitude; zero is not negative
I64(neg, mag) == [neg |-> neg /\ mag # U64(0), mag |-> mag]
\* i64::from_str: an optional sign, then one or more decimal digits; an error
\* when the value is outside i64::MIN ..= i64::MAX
ParseI64(s) ==
  LET neg == s # <<>> /\ Head(s) = "-"
      d == IF s # <<>> /\ Head(s) \in {"+", "-"} THEN Tail(s) ELSE s
  IN IF d # <<>> /\ (\A i \in 1..Len(d) : IsDigit(d[i]))
        /\ Fits(d, IF neg THEN I64MinMag ELSE I64Max)
     THEN Some(I64(neg, Limbs(StripZeros(d)))) ELSE None
\* a - b on limbs, for a >= b
U64Sub(a, b) ==
  LET b3 == IF a[3] < b[3] THEN 1 ELSE 0
      b2 == IF a[2] - b3 < b[2] THEN 1 ELSE 0
  IN <<a[1] - b2 - b[1], a[2] - b3 - b[2] + b2 * Limb, a[3] - b[3] + b3 * Limb>>
\* `m as u64` of an i64: a negative m wraps to 2^64 - |m|
AsU64Cast(m) ==
  IF ~m.neg THEN m.mag
  ELSE LET c == U64Sub(U64Max, m.mag)
       IN IF c[3] + 1 < Limb THEN <<c[1], c[2], c[3] + 1>>
          ELSE IF c[2] + 1 < Limb THEN <<c[1], c[2] + 1, 0>>
          ELSE <<c[1] + 1, 0, 0>>

\* ------------------------------------------------------- hypr::read_events
\* One record line, e.g. activewindow>>alacritty,Window Title
EventOf(splits) ==
  [name |-> splits[1],
   args |-> IF Len(splits) >= 2 THEN Split(splits[2], Chars(",")) ELSE <<>>]
ParseEvent(line) == EventOf(Split(line, Chars(">>")))

RECURSIVE ParseEvents(_)
ParseEvents(lines) ==
  IF lines = <<>> THEN <<>>
  ELSE <<ParseEvent(Head(lines))>> \o ParseEvents(Tail(lines))

\* a slip: the empty lines are not filtered out
EventsOf_NoFilter(text) == ParseEvents(Split(text, <<NL>>))
\* lines 22-34: the (name, args) of the non-empty lines of the text
EventsOf(text) == ParseEvents(NonEmpty(Split(text, <<NL>>)))

\* lines 21-34 on the bytes buf[..len] one socket.read delivered: an error
\* when they are not valid UTF-8, else the events of their text
Decoded(text) ==
  IF IsNone(text) THEN Err("socket 2 did not return valid utf-8")
  ELSE Ok(EventsOf(Unwrap(text)))
read_events(buf) == Decoded(from_utf8(buf))

\* ------------------------------------ hypr::get_hypr_socket, get_hypr_config
\* The environment of the process: the variables HYPRLAND_INSTANCE_SIGNATURE,
\* XDG_RUNTIME_DIR, XDG_CONFIG_HOME and HOME, each None when it is not set (or
\* not valid Unicode), and whether $XDG_RUNTIME_DIR/hypr exists on disk.
Env(instance, runtime_dir, runtime_exists, config_home, home) ==
  [instance |-> instance, runtime_dir |-> runtime_dir, runtime_exists |-> runtime_exists,
   config_home |-> config_home, home |-> home]

\* lines 105-109: format!("/tmp/hypr/{instance}/.{name}.sock")
get_hypr_socket(name, e) ==
  IF IsNone(e.instance)
  THEN Err("couldn't find instance singature, is hyprland running?")
  ELSE Ok(Chars("/tmp/hypr/") \o Unwrap(e.instance) \o Chars("/.") \o name
            \o Chars(".sock"))

\* lines 98-102: $XDG_CONFIG_HOME, else $HOME/.config, then /hypr/hyprland.conf
get_hypr_config(e) ==
  IF IsSome(e.config_home) THEN Ok(Unwrap(e.config_home) \o Chars("/hypr/hyprland.conf"))
  ELSE IF IsSome(e.home)
  THEN Ok(Unwrap(e.home) \o Chars("/.config") \o Chars("/hypr/hyprland.conf"))
  ELSE Err("$HOME is not set, cannot find hyprland config")

\* -------------------------------------------- hypr::get_config_workspaces
\* struct WorkspaceInformation, #[derive(Default)]
WorkspaceInformation == [id |-> None, name |-> None, monitor |-> None]

\* for (i, attribute) in attributes.split(',').enumerate(); i counts from 0
RECURSIVE ParseAttributes(_, _, _)
ParseAttributes(attrs, i, info) ==
  IF attrs = <<>> THEN Ok(info)
  ELSE
    LET attribute == Trim(Head(attrs))
    IN IF i = 0
       THEN IF StartsWith(attribute, Chars("name:"))
            THEN ParseAttributes(Tail(attrs), i + 1,
                   [info EXCEPT !.name = StripPrefix(attribute, Chars("name:"))])
            ELSE IF IsSome(ParseU64(attribute))
                 THEN ParseAttributes(Tail(attrs), i + 1,
                        [info EXCEPT !.id = Some(Unwrap(ParseU64(attribute)))])
                 ELSE Err("id of workspace is not integer")
       ELSE ParseAttributes(Tail(attrs), i + 1,
              [info EXCEPT !.monitor =
                 IF IsSome(StripPrefix(attribute, Chars("monitor:")))
                 THEN StripPrefix(attribute, Chars("monitor:")) ELSE info.monitor])

\* the filter on the lines of the file
IsDefinition(line) ==
  StartsWith(Trim(line), Chars("workspace ")) \/ StartsWith(Trim(line), Chars("workspace="))

RECURSIVE ParseDefinitions(_, _)
ParseDefinitions(lines, infos) ==
  IF lines = <<>> THEN Ok(infos)
  ELSE IF ~IsDefinition(Head(lines)) THEN ParseDefinitions(Tail(lines), infos)
  ELSE
    LET line == Head(lines)
        i == Find(line, Chars("="))
    IN IF i = 0 THEN Err("couldn't find '=' in workspace definition")
       ELSE LET info == ParseAttributes(Split(Trim(Drop(line, i + 1)), Chars(",")), 0,
                                        WorkspaceInformation)
            IN IF info.ok THEN ParseDefinitions(Tail(lines), Append(infos, info.val))
               ELSE info

\* What is on disk at the path of the config file: nothing that can be
\* opened, something that opens but cannot be read as text (a directory,
\* bytes that are not UTF-8), or a text.
NoFile == [kind |-> "none"]
Unreadable == [kind |-> "unreadable"]
TextFile(content) == [kind |-> "text", content |-> content]

\* lines 66-95 in environment e with the config file as given
get_config_workspaces(e, file) ==
  IF ~get_hypr_config(e).ok THEN get_hypr_config(e)
  ELSE IF file.kind = "none" THEN Err("couldn't open hyprland config")
  ELSE IF file.kind = "unreadable" THEN Err("failed to read from hyprland config file")
  ELSE ParseDefinitions(Split(file.content, <<NL>>), <<>>)

\* ------------------------------------------------------ serde_json::Value
\* A value is a record with its kind: null, bool, number, string, array or
\* object.  A number is one of the three classes of serde_json: PosInt (a
\* u64), NegInt (a negative i64, kept as its magnitude) or Float.  A Float is
\* a finite f64, kept as the sixteen hexadecimal digits of f64::to_bits.  The
\* map of an object is a function from the texts of its keys to their values.
JNull == [kind |-> "null"]
JBool(b) == [kind |-> "bool", b |-> b]
JString(text) == [kind |-> "string", text |-> text]
JArray(items) == [kind |-> "array", items |-> items]
JObject(map) == [kind |-> "object", map |-> map]
PosInt(mag) == [kind |-> "number", class |-> "PosInt", mag |-> mag]
NegInt(mag) == [kind |-> "number", class |-> "NegInt", mag |-> mag]
Float(bits) == [kind |-> "number", class |-> "Float", bits |-> bits]
\* serde_json::Map::new
EmptyMap == [x \in {} |-> FALSE]
\* HashMap::insert, and the insert of a map of text keys
Put(map, k, v) == [x \in DOMAIN map \cup {k} |-> IF x = k THEN v ELSE map[x]]

\* Value::get with a string index: None on every value but an object
Get(v, k) == IF v.kind = "object" /\ k \in DOMAIN v.map THEN Some(v.map[k]) ELSE None
Has(v, k) == IsSome(Get(v, k))
\* serde_json::Map::insert on the map of the object o
Insert(o, k, v) == JObject(Put(o.map, k, v))
\* Value::as_u64: Some for a PosInt only
AsU64(v) == IF v.kind = "number" /\ v.class = "PosInt" THEN Some(v.mag) ELSE None
\* Value::as_i64: Some for a NegInt and for a PosInt up to i64::MAX
AsI64(v) ==
  IF v.kind = "number" /\ v.class = "NegInt" THEN Some(I64(TRUE, v.mag))
  ELSE IF v.kind = "number" /\ v.class = "PosInt" /\ U64Le(v.mag, I64Max)
  THEN Some(I64(FALSE, v.mag))
  ELSE None
\* Value::as_str, Value::as_bool
AsStr(v) == IF v.kind = "string" THEN Some(v.text) ELSE None
AsBool(v) == IF v.kind = "bool" THEN Some(v.b) ELSE None
\* Value::as_array is Some, `if let Value::Array(_)`
IsArray(v) == v.kind = "array"
\* `if let Value::Object(_)`
IsObject(v) == v.kind = "object"

\* ------------------------------------------- serde_json::from_str::<Value>
\* The grammar of RFC 8259 as serde_json reads it into a Value: optional
\* whitespace (space, \t, \n, \r) around the tokens, a later key of an object
\* replacing an earlier equal one, nothing but whitespace behind the value,
\* arrays and objects nested less than 128 deep.
PFail == [ok |-> FALSE]
POk(v, n) == [ok |-> TRUE, val |-> v, next |-> n]
\* the first position from i on that holds no whitespace
SkipWs(s, i) ==
  Least({ j \in i..(Len(s) + 1) : j > Len(s) \/ s[j] \notin {" ", "\t", "\n", "\r"} })
\* the first position from i on that holds no digit
SkipDigits(s, i) == Least({ j \in i..(Len(s) + 1) : j > Len(s) \/ ~IsDigit(s[j]) })
\* the first position from i on that holds no '0'
SkipZeros(s, i) == Least({ j \in i..(Len(s) + 1) : j > Len(s) \/ s[j] # "0" })

\* the value of four hexadecimal digits at i, -1 when they are not there
HexVal(c) ==
  IF IsDigit(c) THEN DigitVal(c)
  ELSE IF \E k \in 1..6 : Chars("abcdef")[k] = c
  THEN 9 + (CHOOSE k \in 1..6 : Chars("abcdef")[k] = c)
  ELSE IF \E k \in 1..6 : Chars("ABCDEF")[k] = c
  THEN 9 + (CHOOSE k \in 1..6 : Chars("ABCDEF")[k] = c)
  ELSE -1
Hex4(s, i) ==
  IF i + 3 <= Len(s) /\ \A k \in 0..3 : HexVal(s[i + k]) >= 0
  THEN HexVal(s[i]) * 4096 + HexVal(s[i + 1]) * 256 + HexVal(s[i + 2]) * 16 + HexVal(s[i + 3])
  ELSE -1
\* the escape behind the backslash at i - 1: the character and the position
\* behind the escape.  \uXXXX is a code point, or the leading half of a
\* surrogate pair that the trailing half must follow.
\* the code point of \uXXXX at i - 2, u its four digits: a code point, or
\* the leading half of a surrogate pair that the trailing half lo must follow
Unicode(s, i, u, lo) ==
  IF u < 0 \/ u \in 56320..57343 THEN PFail
  ELSE IF u \notin 55296..56319 THEN POk(CharOf(u), i + 4)
  ELSE IF At(s, i + 4, Chars("\\u")) /\ lo \in 56320..57343
  THEN POk(CharOf(65536 + (u - 55296) * 1024 + (lo - 56320)), i + 10)
  ELSE PFail
\* the escape behind the backslash at i - 1: the character and the position
\* behind the escape
ParseEscape(s, i) ==
  IF i > Len(s) THEN PFail
  ELSE IF s[i] \in {"\"", "\\", "/"} THEN POk(s[i], i + 1)
  ELSE IF s[i] = "b" THEN POk(CharOf(8), i + 1)
  ELSE IF s[i] = "f" THEN POk("\f", i + 1)
  ELSE IF s[i] = "n" THEN POk("\n", i + 1)
  ELSE IF s[i] = "r" THEN POk("\r", i + 1)
  ELSE IF s[i] = "t" THEN POk("\t", i + 1)
  ELSE IF s[i] = "u" THEN Unicode(s, i + 1, Hex4(s, i + 1), Hex4(s, i + 7))
  ELSE PFail
\* the control characters, which a string holds only escaped
Controls == { CharOf(c) : c \in 0..31 }
\* the characters of a string from i on, up to the closing quote; acc the
\* characters read
RECURSIVE StringFrom(_, _, _)
Escaped(s, acc, esc) ==
  IF esc.ok THEN StringFrom(s, esc.next, Append(acc, esc.val)) ELSE PFail
StringFrom(s, i, acc) ==
  IF i > Len(s) THEN PFail
  ELSE IF s[i] = "\"" THEN POk(acc, i + 1)
  ELSE IF s[i] = "\\" THEN Escaped(s, acc, ParseEscape(s, i + 1))
  ELSE IF s[i] \in Controls THEN PFail
  ELSE StringFrom(s, i + 1, Append(acc, s[i]))
\* a string token at i: its text
ParseString(s, i) ==
  IF i <= Len(s) /\ s[i] = "\"" THEN StringFrom(s, i + 1, <<>>) ELSE PFail

\* ------------------------------------------------------------------- f64
\* A natural number of any size: its limbs of base 4096, the least first.
Base == 4096
\* 2^k for k < 12
Pow2(k) == <<1, 2, 4, 8, 16, 32, 64, 128, 256, 512, 1024, 2048>>[k + 1]
\* without the zero limbs at the top
RECURSIVE BigTrim(_)
BigTrim(a) == IF a # <<>> /\ a[Len(a)] = 0 THEN BigTrim(SubSeq(a, 1, Len(a) - 1)) ELSE a
\* a * k + c for a small k and c
RECURSIVE BigMulAdd(_, _, _)
BigMulAdd(a, k, c) ==
  IF a = <<>> THEN (IF c = 0 THEN <<>> ELSE <<c % Base>> \o BigMulAdd(a, k, c \div Base))
  ELSE <<(Head(a) * k + c) % Base>> \o BigMulAdd(Tail(a), k, (Head(a) * k + c) \div Base)
\* a + b + c for a carry c
RECURSIVE BigAdd(_, _, _)
BigAdd(a, b, c) ==
  IF a = <<>> /\ b = <<>> THEN (IF c = 0 THEN <<>> ELSE <<c>>)
  ELSE IF a = <<>> THEN BigAdd(b, a, c)
  ELSE IF b = <<>> THEN <<(Head(a) + c) % Base>> \o BigAdd(Tail(a), b, (Head(a) + c) \div Base)
  ELSE <<(Head(a) + Head(b) + c) % Base>>
       \o BigAdd(Tail(a), Tail(b), (Head(a) + Head(b) + c) \div Base)
\* a - b - c for a borrow c, where a >= b + c
RECURSIVE BigSub(_, _, _)
BigSub(a, b, c) ==
  IF a = <<>> THEN <<>>
  ELSE IF b = <<>> THEN <<(Head(a) - c + Base) % Base>>
                        \o BigSub(Tail(a), b, IF Head(a) < c THEN 1 ELSE 0)
  ELSE <<(Head(a) - Head(b) - c + Base) % Base>>
       \o BigSub(Tail(a), Tail(b), IF Head(a) < Head(b) + c THEN 1 ELSE 0)
\* a * b
RECURSIVE BigMul(_, _)
BigMul(a, b) ==
  IF b = <<>> THEN <<>>
  ELSE BigAdd(BigMulAdd(a, Head(b), 0), <<0>> \o BigMul(a, Tail(b)), 0)
\* a < b, for a and b without zero limbs at the top
BigLess(a, b) ==
  IF Len(a) # Len(b) THEN Len(a) < Len(b)
  ELSE \E i \in 1..Len(a) : a[i] < b[i] /\ \A j \in (i + 1)..Len(a) : a[j] = b[j]
\* the number of bits of a limb, and of a number
RECURSIVE LimbBits(_)
LimbBits(x) == IF x = 0 THEN 0 ELSE 1 + LimbBits(x \div 2)
TopBits(a) == IF a = <<>> THEN 0 ELSE 12 * (Len(a) - 1) + LimbBits(a[Len(a)])
BigBits(a) == TopBits(BigTrim(a))
\* bit i of a, the least being bit 0
BigBit(a, i) ==
  IF i < 0 \/ i \div 12 >= Len(a) THEN 0 ELSE (a[i \div 12 + 1] \div Pow2(i % 12)) % 2
\* the bits of a below bit n are all zero
BigLowZero(a, n) ==
  /\ \A j \in 1..Len(a) : j <= n \div 12 => a[j] = 0
  /\ n \div 12 < Len(a) => a[n \div 12 + 1] % Pow2(n % 12) = 0
\* a * 2^s and floor(a / 2^s)
BigShl(a, s) == [j \in 1..(s \div 12) |-> 0] \o BigMulAdd(a, Pow2(s % 12), 0)
ShrLimbs(a, p) ==
  [j \in 1..Len(a) |->
     a[j] \div p + (IF j < Len(a) THEN (a[j + 1] % p) * (Base \div p) ELSE 0)]
BigShr(a, s) == BigTrim(ShrLimbs(SubSeq(a, s \div 12 + 1, Len(a)), Pow2(s % 12)))
\* the number of decimal digits
RECURSIVE BigOf(_, _)
BigOf(d, acc) == IF d = <<>> THEN acc ELSE BigOf(Tail(d), BigMulAdd(acc, 10, DigitVal(Head(d))))

\* The magnitude of an f64 is m * 2^e with m < 2^53 and e >= -1074, where
\* m >= 2^52 (a normal number) or e = -1074 (a subnormal number or zero); it
\* is infinite when e > 971.
F64(m, e) == [m |-> BigTrim(m), e |-> e]
IsInfinite(f) == f.e > 971
\* m has grown to 2^53 by rounding up
Carry(m, e) == IF TopBits(m) > 53 THEN F64(BigShr(m, 1), e + 1) ELSE F64(m, e)
\* M * 2^e without its s lowest bits, rounded to nearest, ties to even
RoundAt(M, e, s) ==
  IF s <= 0 THEN F64(BigShl(M, 0 - s), e + s)
  ELSE IF BigBit(M, s - 1) = 1 /\ (BigBit(M, s) = 1 \/ ~BigLowZero(M, s - 1))
  THEN Carry(BigTrim(BigAdd(BigShr(M, s), <<1>>, 0)), e + s)
  ELSE F64(BigShr(M, s), e + s)
\* the f64 nearest to M * 2^e: 53 bits are kept, fewer for a subnormal number
Max(a, b) == IF a >= b THEN a ELSE b
Round(M, e) ==
  IF BigTrim(M) = <<>> THEN F64(<<>>, -1074)
  ELSE RoundAt(M, e, Max(BigBits(M) - 53, -1074 - e))
\* f64 * f64
F64Mul(f, g) == Round(BigMul(f.m, g.m), f.e + g.e)
\* One more bit of a quotient by d: q the quotient so far, r the remainder so
\* far, doubled, which is below 2 * d
DivBit(d, q, r) ==
  IF BigLess(r, d) THEN [q |-> BigMulAdd(q, 2, 0), r |-> r]
  ELSE [q |-> BigMulAdd(q, 2, 1), r |-> BigTrim(BigSub(r, d, 0))]
DivNext(d, st) == DivBit(d, st.q, BigMulAdd(st.r, 2, 0))
\* k more bits of the quotient, three at a time, and then one last bit, set
\* when the division leaves a remainder
RECURSIVE BigDiv(_, _, _)
BigDiv(d, k, st) ==
  IF k = 0 \/ st.r = <<>>
  THEN BigMulAdd(BigShl(st.q, k), 2, IF st.r = <<>> THEN 0 ELSE 1)
  ELSE BigDiv(d, k - 3, DivNext(d, DivNext(d, DivNext(d, st))))
\* f64 / f64 for a normal divisor: the dividend is brought to 53 bits, so the
\* quotient of 57 more bits has 56 bits or more
F64Div(f, g) ==
  IF f.m = <<>> THEN f
  ELSE Round(BigDiv(g.m, 57, DivBit(g.m, <<>>, BigShl(f.m, 53 - TopBits(f.m)))),
             f.e - (53 - TopBits(f.m)) - g.e - 58)
\* f64::to_bits in sixteen hexadecimal digits, and f64::from_bits of a
\* positive normal number
LimbAt(m, j) == IF j <= Len(m) THEN m[j] ELSE 0
F64Bits(neg, f) ==
  Hex((IF neg THEN 2048 ELSE 0) + (IF TopBits(f.m) = 53 THEN f.e + 1075 ELSE 0), 3)
  \o Hex(LimbAt(f.m, 5) % 16, 1) \o Hex(LimbAt(f.m, 4), 3) \o Hex(LimbAt(f.m, 3), 3)
  \o Hex(LimbAt(f.m, 2), 3) \o Hex(LimbAt(f.m, 1), 3)
HexAt(bits, i, n) ==
  IF n = 1 THEN HexVal(SubSeq(bits, i, i))
  ELSE HexVal(SubSeq(bits, i, i)) * 256 + HexVal(SubSeq(bits, i + 1, i + 1)) * 16
       + HexVal(SubSeq(bits, i + 2, i + 2))
F64FromBits(bits) ==
  F64(<<HexAt(bits, 14, 3), HexAt(bits, 11, 3), HexAt(bits, 8, 3), HexAt(bits, 5, 3),
        16 + HexAt(bits, 4, 1)>>, HexAt(bits, 1, 3) - 1075)
\* static POW10: [f64; 309] of serde_json, the f64 of the literals 1e0 ..= 1e308
POW10Bits ==
  <<
   "3FF0000000000000", "4024000000000000", "4059000000000000", "408F400000000000",
   "40C3880000000000", "40F86A0000000000", "412E848000000000", "416312D000000000",
   "4197D78400000000", "41CDCD6500000000", "4202A05F20000000", "42374876E8000000",
   "426D1A94A2000000", "42A2309CE5400000", "42D6BCC41E900000", "430C6BF526340000",
   "4341C37937E08000", "4376345785D8A000", "43ABC16D674EC800", "43E158E460913D00",
   "4415AF1D78B58C40", "444B1AE4D6E2EF50", "4480F0CF064DD592", "44B52D02C7E14AF6",
   "44EA784379D99DB4", "45208B2A2C280291", "4554ADF4B7320335", "4589D971E4FE8402",
   "45C027E72F1F1281", "45F431E0FAE6D721", "46293E5939A08CEA", "465F8DEF8808B024",
   "4693B8B5B5056E17", "46C8A6E32246C99C", "46FED09BEAD87C03", "4733426172C74D82",
   "476812F9CF7920E3", "479E17B84357691B", "47D2CED32A16A1B1", "48078287F49C4A1D",
   "483D6329F1C35CA5", "48725DFA371A19E7", "48A6F578C4E0A061", "48DCB2D6F618C879",
   "4911EFC659CF7D4C", "49466BB7F0435C9E", "497C06A5EC5433C6", "49B18427B3B4A05C",
   "49E5E531A0A1C873", "4A1B5E7E08CA3A8F", "4A511B0EC57E649A", "4A8561D276DDFDC0",
   "4ABABA4714957D30", "4AF0B46C6CDD6E3E", "4B24E1878814C9CE", "4B5A19E96A19FC41",
   "4B905031E2503DA9", "4BC4643E5AE44D13", "4BF97D4DF19D6057", "4C2FDCA16E04B86D",
   "4C63E9E4E4C2F344", "4C98E45E1DF3B015", "4CCF1D75A5709C1B", "4D03726987666191",
   "4D384F03E93FF9F5", "4D6E62C4E38FF872", "4DA2FDBB0E39FB47", "4DD7BD29D1C87A19",
   "4E0DAC74463A989F", "4E428BC8ABE49F64", "4E772EBAD6DDC73D", "4EACFA698C95390C",
   "4EE21C81F7DD43A7", "4F16A3A275D49491", "4F4C4C8B1349B9B5", "4F81AFD6EC0E1411",
   "4FB61BCCA7119916", "4FEBA2BFD0D5FF5B", "502145B7E285BF99", "50559725DB272F7F",
   "508AFCEF51F0FB5F", "50C0DE1593369D1B", "50F5159AF8044462", "512A5B01B605557B",
   "516078E111C3556D", "5194971956342AC8", "51C9BCDFABC1357A", "5200160BCB58C16C",
   "52341B8EBE2EF1C7", "526922726DBAAE39", "529F6B0F092959C7", "52D3A2E965B9D81D",
   "53088BA3BF284E24", "533EAE8CAEF261AD", "53732D17ED577D0C", "53A7F85DE8AD5C4F",
   "53DDF67562D8B363", "5412BA095DC7701E", "5447688BB5394C25", "547D42AEA2879F2E",
   "54B249AD2594C37D", "54E6DC186EF9F45C", "551C931E8AB87173", "5551DBF316B346E8",
   "558652EFDC6018A2", "55BBE7ABD3781ECA", "55F170CB642B133F", "5625CCFE3D35D80E",
   "565B403DCC834E12", "569108269FD210CB", "56C54A3047C694FE", "56FA9CBC59B83A3D",
   "5730A1F5B8132466", "5764CA732617ED80", "5799FD0FEF9DE8E0", "57D03E29F5C2B18C",
   "58044DB473335DEF", "583961219000356B", "586FB969F40042C5", "58A3D3E2388029BB",
   "58D8C8DAC6A0342A", "590EFB1178484135", "59435CEAEB2D28C1", "59783425A5F872F1",
   "59AE412F0F768FAD", "59E2E8BD69AA19CC", "5A17A2ECC414A03F", "5A4D8BA7F519C84F",
   "5A827748F9301D32", "5AB7151B377C247E", "5AECDA62055B2D9E", "5B22087D4358FC82",
   "5B568A9C942F3BA3", "5B8C2D43B93B0A8C", "5BC19C4A53C4E697", "5BF6035CE8B6203D",
   "5C2B843422E3A84D", "5C6132A095CE4930", "5C957F48BB41DB7C", "5CCADF1AEA12525B",
   "5D00CB70D24B7379", "5D34FE4D06DE5057", "5D6A3DE04895E46D", "5DA066AC2D5DAEC4",
   "5DD4805738B51A75", "5E09A06D06E26112", "5E400444244D7CAB", "5E7405552D60DBD6",
   "5EA906AA78B912CC", "5EDF485516E7577F", "5F138D352E5096AF", "5F48708279E4BC5B",
   "5F7E8CA3185DEB72", "5FB317E5EF3AB327", "5FE7DDDF6B095FF1", "601DD55745CBB7ED",
   "6052A5568B9F52F4", "60874EAC2E8727B1", "60BD22573A28F19D", "60F2357684599702",
   "6126C2D4256FFCC3", "615C73892ECBFBF4", "6191C835BD3F7D78", "61C63A432C8F5CD6",
   "61FBC8D3F7B3340C", "62315D847AD00087", "6265B4E5998400A9", "629B221EFFE500D4",
   "62D0F5535FEF2084", "630532A837EAE8A5", "633A7F5245E5A2CF", "63708F936BAF85C1",
   "63A4B378469B6732", "63D9E056584240FE", "64102C35F729689F", "6444374374F3C2C6",
   "647945145230B378", "64AF965966BCE056", "64E3BDF7E0360C36", "6518AD75D8438F43",
   "654ED8D34E547314", "6583478410F4C7EC", "65B819651531F9E8", "65EE1FBE5A7E7861",
   "6622D3D6F88F0B3D", "665788CCB6B2CE0C", "668D6AFFE45F818F", "66C262DFEEBBB0F9",
   "66F6FB97EA6A9D38", "672CBA7DE5054486", "6761F48EAF234AD4", "679671B25AEC1D89",
   "67CC0E1EF1A724EB", "680188D357087713", "6835EB082CCA94D7", "686B65CA37FD3A0D",
   "68A11F9E62FE4448", "68D56785FBBDD55A", "690AC1677AAD4AB1", "6940B8E0ACAC4EAF",
   "6974E718D7D7625A", "69AA20DF0DCD3AF1", "69E0548B68A044D6", "6A1469AE42C8560C",
   "6A498419D37A6B8F", "6A7FE52048590673", "6AB3EF342D37A408", "6AE8EB0138858D0A",
   "6B1F25C186A6F04C", "6B537798F4285630", "6B88557F31326BBB", "6BBE6ADEFD7F06AA",
   "6BF302CB5E6F642A", "6C27C37E360B3D35", "6C5DB45DC38E0C82", "6C9290BA9A38C7D1",
   "6CC734E940C6F9C6", "6CFD022390F8B837", "6D3221563A9B7323", "6D66A9ABC9424FEB",
   "6D9C5416BB92E3E6", "6DD1B48E353BCE70", "6E0621B1C28AC20C", "6E3BAA1E332D728F",
   "6E714A52DFFC6799", "6EA59CE797FB817F", "6EDB04217DFA61DF", "6F10E294EEBC7D2C",
   "6F451B3A2A6B9C76", "6F7A6208B5068394", "6FB07D457124123D", "6FE49C96CD6D16CC",
   "7019C3BC80C85C7F", "70501A55D07D39CF", "708420EB449C8843", "70B9292615C3AA54",
   "70EF736F9B3494E9", "7123A825C100DD11", "7158922F31411456", "718EB6BAFD91596B",
   "71C33234DE7AD7E3", "71F7FEC216198DDC", "722DFE729B9FF153", "7262BF07A143F6D4",
   "72976EC98994F489", "72CD4A7BEBFA31AB", "73024E8D737C5F0B", "7336E230D05B76CD",
   "736C9ABD04725481", "73A1E0B622C774D0", "73D658E3AB795204", "740BEF1C9657A686",
   "74417571DDF6C814", "7475D2CE55747A18", "74AB4781EAD1989E", "74E10CB132C2FF63",
   "75154FDD7F73BF3C", "754AA3D4DF50AF0B", "7580A6650B926D67", "75B4CFFE4E7708C0",
   "75EA03FDE214CAF1", "7620427EAD4CFED6", "7654531E58A03E8C", "768967E5EEC84E2F",
   "76BFC1DF6A7A61BB", "76F3D92BA28C7D15", "7728CF768B2F9C5A", "775F03542DFB8370",
   "779362149CBD3226", "77C83A99C3EC7EB0", "77FE494034E79E5C", "7832EDC82110C2F9",
   "7867A93A2954F3B8", "789D9388B3AA30A5", "78D27C35704A5E67", "79071B42CC5CF601",
   "793CE2137F743382", "79720D4C2FA8A031", "79A6909F3B92C83D", "79DC34C70A777A4D",
   "7A11A0FC668AAC70", "7A46093B802D578C", "7A7B8B8A6038AD6F", "7AB137367C236C65",
   "7AE585041B2C477F", "7B1AE64521F7595E", "7B50CFEB353A97DB", "7B8503E602893DD2",
   "7BBA44DF832B8D46", "7BF06B0BB1FB384C", "7C2485CE9E7A065F", "7C59A742461887F6",
   "7C9008896BCF54FA", "7CC40AABC6C32A38", "7CF90D56B873F4C7", "7D2F50AC6690F1F8",
   "7D63926BC01A973B", "7D987706B0213D0A", "7DCE94C85C298C4C", "7E031CFD3999F7B0",
   "7E37E43C8800759C", "7E6DDD4BAA009303", "7EA2AA4F4A405BE2", "7ED754E31CD072DA",
   "7F0D2A1BE4048F90", "7F423A516E82D9BA", "7F76C8E5CA239029", "7FAC7B1F3CAC7433",
   "7FE1CCF385EBC8A0"
  >>
POW10(e) == F64FromBits(POW10Bits[e + 1])

\* ------------------------------------------------ the numbers of serde_json
\* i32::MAX and i32::MIN
I32Max == 2147483647
I32Min == -2147483647 - 1
\* Deserializer::f64_from_parts: significand as f64, times or by the power of
\* ten of the table; an exponent beyond the table is taken in steps of 308.
\* None is the error of a number out of range.
RECURSIVE Scale(_, _)
Finite(f) == IF IsInfinite(f) THEN None ELSE Some(f)
Scaled(q, exponent) == IF exponent >= -308 THEN Some(q) ELSE Scale(q, exponent + 308)
ScaleBy(f, exponent, pow) ==
  IF exponent >= 0 /\ exponent <= 308 THEN Finite(F64Mul(f, pow))
  ELSE IF f.m = <<>> THEN Some(f)
  ELSE IF exponent >= 0 THEN None
  ELSE Scaled(F64Div(f, pow), exponent)
Scale(f, exponent) ==
  ScaleBy(f, exponent, POW10(IF exponent < -308 \/ exponent > 308 THEN 308
                             ELSE IF exponent < 0 THEN 0 - exponent ELSE exponent))
Signed(positive, f) == IF IsNone(f) THEN None ELSE Some(Float(F64Bits(~positive, Unwrap(f))))
f64_from_parts(positive, significand, exponent) ==
  Signed(positive, Scale(Round(BigOf(significand, <<>>), 0), exponent))

\* What the functions below read of a number: an integer, or the parts of a
\* float that f64_from_parts gets.  The significand, a u64, is kept as its
\* decimal digits without leading zeros.
Whole(positive, significand) ==
  [float |-> FALSE, positive |-> positive, significand |-> significand, exponent |-> 0]
Parts(positive, significand, exponent) ==
  [float |-> TRUE, positive |-> positive, significand |-> significand,
   exponent |-> exponent]
\* overflow!(significand * 10 + digit, u64::MAX)
Overflows(significand, c) == ~Fits(Append(significand, c), U64Max)
\* significand * 10 + digit
Push(significand, c) == StripZeros(Append(significand, c))
\* Deserializer::parse_exponent_overflow, behind the digit that overflowed:
\* an error, or 0.0 or -0.0, the f64 of the parts 0 and 0
parse_exponent_overflow(s, i, positive, zero_significand, positive_exp) ==
  IF ~zero_significand /\ positive_exp THEN PFail
  ELSE POk(Parts(positive, <<>>, 0), SkipDigits(s, i))
\* Deserializer::parse_exponent, behind the 'e': a sign, a digit, more digits
\* (a run of zeros that leaves exp at 0 is taken in one step); the exponent
\* is starting_exp.saturating_add(exp) or starting_exp.saturating_sub(exp)
RECURSIVE ExponentDigits(_, _, _, _, _, _, _)
ExponentDigits(s, i, positive, significand, starting_exp, positive_exp, exp) ==
  IF i <= Len(s) /\ s[i] = "0" /\ exp = 0
  THEN ExponentDigits(s, SkipZeros(s, i), positive, significand, starting_exp,
                      positive_exp, exp)
  ELSE IF i <= Len(s) /\ IsDigit(s[i])
  THEN IF exp >= I32Max \div 10 /\ (exp > I32Max \div 10 \/ DigitVal(s[i]) > I32Max % 10)
       THEN parse_exponent_overflow(s, i + 1, positive, significand = <<>>, positive_exp)
       ELSE ExponentDigits(s, i + 1, positive, significand, starting_exp, positive_exp,
                           exp * 10 + DigitVal(s[i]))
  ELSE POk(Parts(positive, significand,
                 IF positive_exp
                 THEN (IF starting_exp > 0 /\ exp > I32Max - starting_exp THEN I32Max
                       ELSE starting_exp + exp)
                 ELSE (IF starting_exp < exp + I32Min THEN I32Min
                       ELSE starting_exp - exp)), i)
ExponentFirst(s, i, positive, significand, starting_exp, positive_exp) ==
  IF i <= Len(s) /\ IsDigit(s[i])
  THEN ExponentDigits(s, i + 1, positive, significand, starting_exp, positive_exp,
                      DigitVal(s[i]))
  ELSE PFail
parse_exponent(s, i, positive, significand, starting_exp) ==
  ExponentFirst(s, IF i <= Len(s) /\ s[i] \in {"+", "-"} THEN i + 1 ELSE i,
                positive, significand, starting_exp, ~(i <= Len(s) /\ s[i] = "-"))
\* behind the digits of a float: an exponent, or the end of the number
ExponentOrEnd(s, i, positive, significand, exponent) ==
  IF i <= Len(s) /\ s[i] \in {"e", "E"}
  THEN parse_exponent(s, i + 1, positive, significand, exponent)
  ELSE POk(Parts(positive, significand, exponent), i)
\* Deserializer::parse_decimal, behind the '.': before and after are
\* exponent_before_decimal_point and exponent_after_decimal_point (a run of
\* zeros that leaves the significand at 0 is taken in one step).  From the
\* digit that overflows on the digits are dropped
\* (Deserializer::parse_decimal_overflow).
RECURSIVE DecimalDigits(_, _, _, _, _, _)
DecimalDigits(s, i, positive, significand, before, after) ==
  IF i <= Len(s) /\ s[i] = "0" /\ significand = <<>>
  THEN DecimalDigits(s, SkipZeros(s, i), positive, significand, before,
                     after - (SkipZeros(s, i) - i))
  ELSE IF i <= Len(s) /\ IsDigit(s[i]) /\ ~Overflows(significand, s[i])
  THEN DecimalDigits(s, i + 1, positive, Push(significand, s[i]), before, after - 1)
  ELSE IF ~(i <= Len(s) /\ IsDigit(s[i])) /\ after = 0 THEN PFail
  ELSE ExponentOrEnd(s, SkipDigits(s, i), positive, significand, before + after)
parse_decimal(s, i, positive, significand, exponent_before_decimal_point) ==
  DecimalDigits(s, i, positive, significand, exponent_before_decimal_point, 0)
\* behind the digits of an integer, the first of them at d: a fraction, an
\* exponent, or the end of the number.  exponent counts the digits that were
\* beyond a u64 (Deserializer::parse_long_integer); without them the number
\* is an integer (Deserializer::parse_number).
IntegerEnd(s, i, positive, significand, exponent) ==
  IF i <= Len(s) /\ s[i] = "."
  THEN parse_decimal(s, i + 1, positive, significand, exponent)
  ELSE IF (i <= Len(s) /\ s[i] \in {"e", "E"}) \/ exponent > 0
  THEN ExponentOrEnd(s, i, positive, significand, exponent)
  ELSE POk(Whole(positive, significand), i)
\* Deserializer::parse_integer: 0, or digits without a leading 0; the digits
\* from the one that overflows on each count one power of ten
RECURSIVE IntegerDigits(_, _, _, _)
IntegerDigits(s, i, positive, significand) ==
  IF i <= Len(s) /\ IsDigit(s[i]) /\ ~Overflows(significand, s[i])
  THEN IntegerDigits(s, i + 1, positive, Append(significand, s[i]))
  ELSE IntegerEnd(s, SkipDigits(s, i), positive, significand, SkipDigits(s, i) - i)
parse_integer(s, i, positive) ==
  IF i > Len(s) \/ ~IsDigit(s[i]) THEN PFail
  ELSE IF s[i] = "0" /\ i + 1 <= Len(s) /\ IsDigit(s[i + 1]) THEN PFail
  ELSE IntegerDigits(s, i + 1, positive, StripZeros(<<s[i]>>))
\* The value of what was read.  An integer is a u64 when it is not negative,
\* an i64 when it is negative and fits, else the f64 of it, as is -0
\* (-(significand as f64), the f64 of the parts significand and 0).
NumberOf(n) ==
  IF ~n.float /\ n.positive THEN Some(PosInt(Limbs(n.significand)))
  ELSE IF ~n.float /\ n.significand # <<>> /\ U64Le(Limbs(n.significand), I64MinMag)
  THEN Some(NegInt(Limbs(n.significand)))
  ELSE f64_from_parts(n.positive, n.significand, n.exponent)
Number(r, n) == IF ~r.ok \/ IsNone(n) THEN PFail ELSE POk(Unwrap(n), r.next)
NumberRead(r) == Number(r, IF r.ok THEN NumberOf(r.val) ELSE None)
\* a number token at i: an optional '-', then the integer
ParseNumber(s, i) ==
  NumberRead(parse_integer(s, IF s[i] = "-" THEN i + 1 ELSE i, s[i] # "-"))

\* the value of a string token
StringValue(r) == IF r.ok THEN POk(JString(r.val), r.next) ELSE PFail
RECURSIVE ParseValue(_, _, _)
RECURSIVE ParseElements(_, _, _, _)
RECURSIVE ParseMembers(_, _, _, _)
\* behind the element v of an array: ']' ends the array, ',' goes on
AfterElement(s, acc, v, j, depth) ==
  IF j <= Len(s) /\ s[j] = "]" THEN POk(JArray(Append(acc, v)), j + 1)
  ELSE IF j <= Len(s) /\ s[j] = "," THEN ParseElements(s, j + 1, Append(acc, v), depth)
  ELSE PFail
Element(s, acc, v, depth) ==
  IF v.ok THEN AfterElement(s, acc, v.val, SkipWs(s, v.next), depth) ELSE PFail
\* the elements of an array from i on, behind '[' or ','; acc the elements read
ParseElements(s, i, acc, depth) == Element(s, acc, ParseValue(s, SkipWs(s, i), depth), depth)
\* behind the member k: v of an object: '}' ends the object, ',' goes on
AfterMember(s, map, j, depth) ==
  IF j <= Len(s) /\ s[j] = "}" THEN POk(JObject(map), j + 1)
  ELSE IF j <= Len(s) /\ s[j] = "," THEN ParseMembers(s, j + 1, map, depth)
  ELSE PFail
MemberValue(s, map, k, v, depth) ==
  IF v.ok THEN AfterMember(s, Put(map, k, v.val), SkipWs(s, v.next), depth) ELSE PFail
\* the key k of a member, the colon at c and the value behind it
Member(s, map, k, c, depth) ==
  IF ~k.ok THEN PFail
  ELSE IF ~(c <= Len(s) /\ s[c] = ":") THEN PFail
  ELSE MemberValue(s, map, k.val, ParseValue(s, SkipWs(s, c + 1), depth), depth)
MemberKey(s, map, k, depth) ==
  IF k.ok THEN Member(s, map, k, SkipWs(s, k.next), depth) ELSE PFail
\* the members of an object from i on, behind '{' or ','; map the members read
ParseMembers(s, i, map, depth) == MemberKey(s, map, ParseString(s, SkipWs(s, i)), depth)
\* Deserializer::remaining_depth at the start
RecursionLimit == 128
\* one value at i; depth is remaining_depth, which an array or an object
\* lowers by one for its contents and which must not come to zero
\* (check_recursion!)
ParseValue(s, i, depth) ==
  IF i > Len(s) THEN PFail
  ELSE IF s[i] \in {"[", "{"} /\ depth - 1 = 0 THEN PFail
  ELSE IF s[i] = "[" THEN
    (IF SkipWs(s, i + 1) <= Len(s) /\ s[SkipWs(s, i + 1)] = "]"
     THEN POk(JArray(<<>>), SkipWs(s, i + 1) + 1)
     ELSE ParseElements(s, i + 1, <<>>, depth - 1))
  ELSE IF s[i] = "{" THEN
    (IF SkipWs(s, i + 1) <= Len(s) /\ s[SkipWs(s, i + 1)] = "}"
     THEN POk(JObject(EmptyMap), SkipWs(s, i + 1) + 1)
     ELSE ParseMembers(s, i + 1, EmptyMap, depth - 1))
  ELSE IF s[i] = "\"" THEN
    StringValue(ParseString(s, i))
  ELSE IF At(s, i, Chars("true")) THEN POk(JBool(TRUE), i + 4)
  ELSE IF At(s, i, Chars("false")) THEN POk(JBool(FALSE), i + 5)
  ELSE IF At(s, i, Chars("null")) THEN POk(JNull, i + 4)
  ELSE ParseNumber(s, i)

\* one value, whitespace around it, and nothing behind it
Complete(s, v) == IF v.ok /\ SkipWs(s, v.next) > Len(s) THEN Ok(v.val) ELSE Err("invalid json")
from_str(s) == Complete(s, ParseValue(s, SkipWs(s, 1), RecursionLimit))

\* ---------------------------------------------------------- hypr::get_info
\* the character the boundaries are marked with, '\x7f'
DEL == CharOf(127)
\* [String]::join
RECURSIVE Join(_, _)
Join(pieces, sep) ==
  IF Len(pieces) = 1 THEN pieces[1]
  ELSE pieces[1] \o sep \o Join(Tail(pieces), sep)
\* str::replace: every non-overlapping match, left to right
Replace(s, from, to) == Join(Split(s, from), to)

\* Iterator::collect::<Result<Vec<_>>>: the values, or the first error
RECURSIVE CollectParsed(_, _)
CollectParsed(pieces, acc) ==
  IF pieces = <<>> THEN Ok(acc)
  ELSE IF from_str(Head(pieces)).ok
  THEN CollectParsed(Tail(pieces), Append(acc, from_str(Head(pieces)).val))
  ELSE Err("socket 1 did not return valid json")

\* lines 49-54: mark the boundaries ][, }[ and ]{ with DEL, split at DEL and
\* parse each piece
Reconstruct(response) ==
  LET marked == Replace(Replace(Replace(response,
                                        Chars("]["), <<"]", DEL, "[">>),
                                Chars("}["), <<"}", DEL, "[">>),
                        Chars("]{"), <<"]", DEL, "{">>)
  IN CollectParsed(Split(marked, <<DEL>>), <<>>)

\* reply is what the query socket does with one batch request: one of the
\* failures of connect, write and read (a response that is not UTF-8 fails
\* the read), or the documents the response splits into, or the text of the
\* response.
Failure(e) == [kind |-> "failure", err |-> e]
Docs(ds) == [kind |-> "docs", docs |-> ds]
\* the peer concatenates the texts of the requested documents
RECURSIVE Concat(_)
Concat(parts) == IF parts = <<>> THEN <<>> ELSE Head(parts) \o Concat(Tail(parts))
Response(parts) == [kind |-> "text", text |-> Concat(parts), parts |-> parts]
\* lines 38-55 in environment e with the socket answering reply
get_info(e, reply) ==
  IF ~get_hypr_socket(Chars("socket"), e).ok THEN get_hypr_socket(Chars("socket"), e)
  ELSE IF reply.kind = "docs" THEN Ok(reply.docs)
  ELSE IF reply.kind = "text" THEN Reconstruct(reply.text)
  ELSE Err(reply.err)

Panic(e) == [ok |-> FALSE, err |-> e, panic |-> TRUE]
IsPanic(r) == "panic" \in DOMAIN r

\* ---------------------------------------------------- main::prepare_monitors
\* lines 138-140 on the result of get_info
MonitorsOf(data) ==
  IF ~data.ok THEN data
  ELSE IF data.val = <<>> THEN Panic("socket one seems broken")
  ELSE Ok(data.val[Len(data.val)])
prepare_monitors(e, reply) == MonitorsOf(get_info(e, reply))

\* -------------------------------------------------- main::prepare_workspaces
\* value.get(k).and_then(|p| p.get(l))
GetIn(v, k, l) == AndThen(Get(v, Chars(k)), LAMBDA p : Get(p, Chars(l)))
\* lines 149-160: the map from each monitor's active workspace id to its
\* focused flag (a later monitor overwrites an earlier one); None when a
\* monitor lacks activeWorkspace.id as a u64 or focused as a bool
RECURSIVE ShownMapOf(_, _)
ShownMapOf(monitors, map) ==
  IF monitors = <<>> THEN Some(map)
  ELSE
    LET monitor == Head(monitors)
        id == AndThen(GetIn(monitor, "activeWorkspace", "id"), AsU64)
        focused == AndThen(Get(monitor, Chars("focused")), AsBool)
    IN IF IsNone(id) \/ IsNone(focused) THEN None
       ELSE ShownMapOf(Tail(monitors), Put(map, Unwrap(id), Unwrap(focused)))

\* lines 152-153: data.get(1)?, monitors.as_array()?
ShownMap(data) ==
  IF Len(data) < 2 \/ ~IsArray(data[2]) THEN None
  ELSE ShownMapOf(data[2].items, EmptyMap)

\* lines 167-169: workspaces.retain(|w| w.monitor as a string == Some(monitor))
RECURSIVE RetainOnMonitor(_, _)
RetainOnMonitor(workspaces, monitor) ==
  IF workspaces = <<>> THEN <<>>
  ELSE (IF AndThen(Get(Head(workspaces), Chars("monitor")), AsStr) = Some(monitor)
        THEN <<Head(workspaces)>> ELSE <<>>)
       \o RetainOnMonitor(Tail(workspaces), monitor)

\* line 186: infos.iter().position(...), 0-based; None when no record matches
Position(infos, id, name) ==
  LET hits == { i \in 1..Len(infos) :
                  infos[i].id = Some(id) \/ infos[i].name = Some(name) }
  IN IF hits = {} THEN None
     ELSE Some((CHOOSE i \in hits : \A j \in hits : i <= j) - 1)

\* line 182: shown_map.get(&id).is_some()
Shown(shown_map, id) == id \in DOMAIN shown_map
\* a slip: `active` computed like `shown`
Active_AsShown(shown_map, id) == id \in DOMAIN shown_map
\* line 183: *shown_map.get(&id).unwrap_or(&false)
Active(shown_map, id) == IF id \in DOMAIN shown_map THEN shown_map[id] ELSE FALSE

\* lines 175-192: the custom attributes of the live workspaces, in order;
\* acc.ws the workspaces done, acc.existing the config indices pushed
RECURSIVE AddAttributes(_, _, _, _)
AddAttributes(workspaces, shown_map, config_workspaces, acc) ==
  IF workspaces = <<>> THEN Ok(acc)
  ELSE
    LET map == Head(workspaces)
        id == AndThen(Get(map, Chars("id")), AsU64)
        name == AndThen(Get(map, Chars("name")), AsStr)
    IN IF ~IsObject(map)
       THEN AddAttributes(Tail(workspaces), shown_map, config_workspaces,
                          [acc EXCEPT !.ws = Append(acc.ws, map)])
       ELSE IF IsNone(id) \/ IsNone(name)
       THEN Err("failure whilst reading id and name of workspace")
       ELSE
         LET m1 == Insert(map, Chars("shown"), JBool(Shown(shown_map, Unwrap(id))))
             m2 == Insert(m1, Chars("active"), JBool(Active(shown_map, Unwrap(id))))
             configured == IF IsSome(config_workspaces)
                           THEN Position(Unwrap(config_workspaces), Unwrap(id), Unwrap(name))
                           ELSE None
             m3 == IF IsSome(config_workspaces)
                   THEN Insert(Insert(m2, Chars("dynamic"), JBool(IsNone(configured))),
                               Chars("exists"), JBool(TRUE))
                   ELSE m2
         IN AddAttributes(Tail(workspaces), shown_map, config_workspaces,
              [ws |-> Append(acc.ws, m3),
               existing |-> IF IsSome(configured)
                            THEN Append(acc.existing, Unwrap(configured))
                            ELSE acc.existing])

\* lines 201-210: the entry synthesized for a config record
Synthesize(info) ==
  LET m0 == JObject(EmptyMap)
      m1 == IF IsSome(info.id) THEN Insert(m0, Chars("id"), PosInt(Unwrap(info.id))) ELSE m0
      m2 == IF IsSome(info.name)
            THEN Insert(m1, Chars("name"), JString(Unwrap(info.name))) ELSE m1
      m3 == IF IsSome(info.monitor)
            THEN Insert(m2, Chars("monitor"), JString(Unwrap(info.monitor))) ELSE m2
  IN Insert(Insert(m3, Chars("dynamic"), JBool(FALSE)), Chars("exists"), JBool(FALSE))

\* lines 196-211: the entries of the config records that are not in existing
\* and pass the monitor filter, in config order; i is the 0-based index
RECURSIVE Configured(_, _, _, _)
Configured(infos, i, existing, on_monitor) ==
  IF i >= Len(infos) THEN <<>>
  ELSE
    LET info == infos[i + 1]
        keep == (\A k \in 1..Len(existing) : existing[k] # i)
                /\ (~IsSome(on_monitor) \/ on_monitor = info.monitor)
    IN (IF keep THEN <<Synthesize(info)>> ELSE <<>>)
       \o Configured(infos, i + 1, existing, on_monitor)

\* lines 215-216: the sort key, get("id").and_then(as_u64).unwrap_or(u64::MAX)
SortKey(w) ==
  IF IsSome(AndThen(Get(w, Chars("id")), AsU64))
  THEN Unwrap(AndThen(Get(w, Chars("id")), AsU64)) ELSE U64Max

\* slice::sort_by, a stable sort: each element goes behind the elements
\* already placed whose key is not greater than its own
RECURSIVE InsertSorted(_, _)
InsertSorted(sorted, w) ==
  IF sorted = <<>> THEN <<w>>
  ELSE IF U64Le(SortKey(sorted[Len(sorted)]), SortKey(w)) THEN Append(sorted, w)
  ELSE Append(InsertSorted(SubSeq(sorted, 1, Len(sorted) - 1), w), sorted[Len(sorted)])

RECURSIVE SortById(_, _)
SortById(ws, sorted) ==
  IF ws = <<>> THEN sorted ELSE SortById(Tail(ws), InsertSorted(sorted, Head(ws)))

\* lines 146-220 on the result of get_info
WorkspacesOf(on_monitor, config_workspaces, data) ==
  IF ~data.ok THEN data
  ELSE IF IsNone(ShownMap(data.val))
     THEN Err("failure whilst reading monitors to find shown workspaces")
     ELSE
       LET shown_map == Unwrap(ShownMap(data.val))
           body == data.val[1]
       IN IF ~IsArray(body) THEN Ok(body)
          ELSE
            LET retained == IF IsSome(on_monitor)
                            THEN RetainOnMonitor(body.items, Unwrap(on_monitor))
                            ELSE body.items
                live == AddAttributes(retained, shown_map, config_workspaces,
                                      [ws |-> <<>>, existing |-> <<>>])
            IN IF ~live.ok THEN live
               ELSE
                 LET all == live.val.ws \o
                            (IF IsSome(config_workspaces)
                             THEN Configured(Unwrap(config_workspaces), 0,
                                             live.val.existing, on_monitor)
                             ELSE <<>>)
                 IN Ok(JArray(SortById(all, <<>>)))
prepare_workspaces(on_monitor, config_workspaces, e, reply) ==
  WorkspacesOf(on_monitor, config_workspaces, get_info(e, reply))

\* ----------------------------------------------------- main::prepare_clients
\* lines 232-235: the map from monitor id to monitor name; None when a
\* monitor lacks id as a u64 or name as a string
RECURSIVE MonitorNamesOf(_, _)
MonitorNamesOf(monitors, map) ==
  IF monitors = <<>> THEN Some(map)
  ELSE
    LET monitor == Head(monitors)
        id == AndThen(Get(monitor, Chars("id")), AsU64)
        name == AndThen(Get(monitor, Chars("name")), AsStr)
    IN IF IsNone(id) \/ IsNone(name) THEN None
       ELSE MonitorNamesOf(Tail(monitors), Put(map, Unwrap(id), Unwrap(name)))

\* a slip: a client without workspace info passes the filter
KeepOnWorkspace_KeepsBare(c, workspace) ==
  LET name == AndThen(GetIn(c, "workspace", "name"), AsStr)
      id == AndThen(GetIn(c, "workspace", "id"), AsI64)
  IN IF IsSome(name) /\ IsSome(id)
     THEN IF IsSome(StripPrefix(workspace, Chars("name:")))
          THEN StripPrefix(workspace, Chars("name:")) = name
          ELSE IsSome(ParseI64(workspace)) /\ ParseI64(workspace) = id
     ELSE TRUE

\* lines 246-257: whether the workspace filter keeps client c
KeepOnWorkspace(c, workspace) ==
  LET name == AndThen(GetIn(c, "workspace", "name"), AsStr)
      id == AndThen(GetIn(c, "workspace", "id"), AsI64)
  IN IF IsSome(name) /\ IsSome(id)
     THEN IF IsSome(StripPrefix(workspace, Chars("name:")))
          THEN StripPrefix(workspace, Chars("name:")) = name
          ELSE IsSome(ParseI64(workspace)) /\ ParseI64(workspace) = id
     ELSE FALSE

RECURSIVE RetainOnWorkspace(_, _)
RetainOnWorkspace(clients, workspace) ==
  IF clients = <<>> THEN <<>>
  ELSE (IF KeepOnWorkspace(Head(clients), workspace) THEN <<Head(clients)>> ELSE <<>>)
       \o RetainOnWorkspace(Tail(clients), workspace)

\* lines 264-265: the name of the monitor of client map: its monitor as an
\* i64, cast to u64, looked up in monitor_names
MonitorNameOf(map, monitor_names) ==
  LET m == AndThen(Get(map, Chars("monitor")), AsI64)
  IN IF IsSome(m) /\ AsU64Cast(Unwrap(m)) \in DOMAIN monitor_names
     THEN Some(monitor_names[AsU64Cast(Unwrap(m))]) ELSE None

\* a slip: a client whose monitor does not resolve is kept under a filter too
RECURSIVE RetainWithMonitor_KeepsUnresolved(_, _, _)
RetainWithMonitor_KeepsUnresolved(clients, monitor_names, monitor) ==
  IF clients = <<>> THEN <<>>
  ELSE
    LET map == Head(clients)
        rest == RetainWithMonitor_KeepsUnresolved(Tail(clients), monitor_names, monitor)
        name == MonitorNameOf(map, monitor_names)
    IN IF ~IsObject(map) THEN <<map>> \o rest
       ELSE IF IsSome(name)
       THEN (IF IsNone(monitor) \/ monitor = name
             THEN <<Insert(map, Chars("monitorName"), JString(Unwrap(name)))>> ELSE <<>>)
            \o rest
       ELSE <<map>> \o rest

\* lines 262-277: clients.retain_mut, which names the monitor of each client
\* and applies the monitor filter
RECURSIVE RetainWithMonitor(_, _, _)
RetainWithMonitor(clients, monitor_names, monitor) ==
  IF clients = <<>> THEN <<>>
  ELSE
    LET map == Head(clients)
        rest == RetainWithMonitor(Tail(clients), monitor_names, monitor)
        name == MonitorNameOf(map, monitor_names)
    IN IF ~IsObject(map) THEN <<map>> \o rest
       ELSE IF IsSome(name)
       THEN (IF IsNone(monitor) \/ monitor = name
             THEN <<Insert(map, Chars("monitorName"), JString(Unwrap(name)))>> ELSE <<>>)
            \o rest
       ELSE (IF IsNone(monitor) THEN <<map>> ELSE <<>>) \o rest

\* lines 225-280 on the result of get_info
ClientsOf(monitor, workspace, data) ==
  IF ~data.ok THEN data
  ELSE IF Len(data.val) < 2 THEN Panic("socket one seems broken")
     ELSE
       LET monitor_names == IF IsArray(data.val[2])
                            THEN MonitorNamesOf(data.val[2].items, EmptyMap) ELSE None
           body == data.val[1]
       IN IF IsNone(monitor_names)
          THEN Err("failure whilst reading monitor names for filtering")
          ELSE IF ~IsArray(body) THEN Ok(body)
          ELSE
            LET on_workspace == IF IsSome(workspace)
                                THEN RetainOnWorkspace(body.items, Unwrap(workspace))
                                ELSE body.items
            IN Ok(JArray(RetainWithMonitor(on_workspace, Unwrap(monitor_names), monitor)))
prepare_clients(monitor, workspace, e, reply) ==
  ClientsOf(monitor, workspace, get_info(e, reply))

\* ---------------------------------------------------------- main::print_data
\* The projection of the active mode in environment e; Ok(v) is printed on
\* standard output, Err(e) on standard error, and a panic ends the process.
\* (The pretty flag only chooses the layout of the printed text and is left
\* out; the serialization of a Value does not fail.)
print_data(command, config_workspaces, e, reply) ==
  IF command.what = "monitors" THEN prepare_monitors(e, reply)
  ELSE IF command.what = "workspaces"
  THEN prepare_workspaces(command.monitor, config_workspaces, e, reply)
  ELSE prepare_clients(command.monitor, command.workspace, e, reply)

\* --------------------------------------------------------------- main::main
MONITOR_EVENTS == <<Chars("focusedmon"), Chars("monitorremoved"), Chars("monitoradded")>>
WORKSPACE_EVENTS ==
  <<Chars("focusedmon"), Chars("monitorremoved"), Chars("monitoradded"),
    Chars("workspace"), Chars("createworkspace"), Chars("destroyworkspace"),
    Chars("moveworkspace"), Chars("openwindow"), Chars("closewindow"),
    Chars("movewindow")>>
\* a slip: a monitor event among the client events
CLIENT_EVENTS_WithFocus ==
  <<Chars("openwindow"), Chars("closewindow"), Chars("movewindow"),
    Chars("changefloatingmode"), Chars("fullscreen"), Chars("windowtitle"),
    Chars("activewindowv2"), Chars("focusedmon")>>
CLIENT_EVENTS ==
  <<Chars("openwindow"), Chars("closewindow"), Chars("movewindow"),
    Chars("changefloatingmode"), Chars("fullscreen"), Chars("windowtitle"),
    Chars("activewindowv2")>>

\* a slip: the monitors arm takes the workspace events
Keywords_WrongArm(what) ==
  IF what = "monitors" THEN WORKSPACE_EVENTS
  ELSE IF what = "workspaces" THEN WORKSPACE_EVENTS
  ELSE CLIENT_EVENTS

\* lines 86-90
Keywords(what) ==
  IF what = "monitors" THEN MONITOR_EVENTS
  ELSE IF what = "workspaces" THEN WORKSPACE_EVENTS
  ELSE CLIENT_EVENTS

\* slice::contains
Contains(arr, s) == \E i \in 1..Len(arr) : arr[i] = s

\* a slip: no `break` after print_data
RECURSIVE ScanFrom_NoBreak(_, _, _)
ScanFrom_NoBreak(events, i, keywords) ==
  IF i > Len(events) THEN [examined |-> Len(events), prints |-> 0]
  ELSE LET rest == ScanFrom_NoBreak(events, i + 1, keywords)
       IN IF Contains(keywords, events[i].name)
          THEN [rest EXCEPT !.prints = rest.prints + 1]
          ELSE rest

\* lines 106-111: the scan of one batch from its i-th event on; examined is
\* the number of events looked at, prints the number of print_data calls
RECURSIVE ScanFrom(_, _, _)
ScanFrom(events, i, keywords) ==
  IF i > Len(events) THEN [examined |-> Len(events), prints |-> 0]
  ELSE IF Contains(keywords, events[i].name) THEN [examined |-> i, prints |-> 1]
  ELSE ScanFrom(events, i + 1, keywords)

Scan(events, keywords) == ScanFrom(events, 1, keywords)

\* =================================================================== state
VARIABLES
  command,            \* the parsed command line: what, once, monitor, config, workspace
  config_workspaces,  \* Option<Vec<WorkspaceInformation>>
  pc,                 \* where main is: "start", "init", "open", "loop" (LISTENING,
                      \* at socket.read), "print" (LISTENING, inside print_data),
                      \* "exited"
  status,             \* Option: the exit status of the process
  socket,             \* the event socket: "unopened" or "open"
  wire,               \* bytes the compositor wrote on the event socket, not yet read
  peer,               \* the compositor's end of the event socket: "open" or "closed"
  sends,              \* records the compositor has written
  lastRead,           \* the last socket.read: "none", "ioerr", "utf8err", "ok"
  lastLen,            \* the number of bytes it delivered
  events,             \* the batch it decoded
  scanned,            \* events of that batch the loop examined
  emits,              \* print_data calls of the last turn of the loop
  attempts,           \* print_data calls so far
  reply,              \* what the query socket answered to the last query
  result,             \* what the last projection returned
  stdout,             \* the documents printed
  stderr,             \* the last diagnostic printed
  env,                \* the environment variables and what exists on disk
  paths,              \* the paths resolved so far, by the name asked for
  sent,               \* history: the records written on the event socket
  served              \* history: the bytes of the event stream that had been
                      \* read when print_data was last called in the loop

vars == <<command, config_workspaces, pc, status, socket, wire, peer, sends, lastRead,
          lastLen, events, scanned, emits, attempts, reply, result, stdout, stderr,
          env, paths, sent, served>>

\* the variables of the path resolution and the history of the stream
aux == <<env, paths, sent, served>>

NoReply == [kind |-> "none"]
NoResult == [ok |-> FALSE, err |-> "none"]

\* ------------------------------------------------------------------ inputs
Modes == {"monitors", "workspaces", "clients"}

Command(what, once, monitor, config, workspace) ==
  [what |-> what, once |-> once, monitor |-> monitor, config |-> config,
   workspace |-> workspace]

\* the command lines of the watch loop
Commands ==
  { Command("monitors", o, None, FALSE, None) : o \in BOOLEAN }
  \cup { Command("workspaces", o, None, c, None) : o \in BOOLEAN, c \in BOOLEAN }
  \cup { Command("clients", o, None, FALSE, None) : o \in BOOLEAN }

\* configuration files of one line: a definition without '=', and one
\* whose id is no number
ConfigLines ==
  { Chars("workspace 3"),
    Chars("workspace=x") }

SeqsUpTo(S, n) == UNION { [1..k -> S] : k \in 0..n }

\* what may be at the path of the configuration file: nothing, something
\* unreadable, or a text of one line or of three lines
ConfigFiles ==
  {NoFile, Unreadable} \cup { TextFile(l) : l \in ConfigLines }
  \cup { TextFile(Chars("workspace = 3, monitor:DP-1\nworkspace_swipe = 1\nworkspace=name:web")) }

\* records the compositor writes on the event socket, as bytes: a monitor
\* event; a window event whose first argument is U+00E9, two bytes; a focus
\* event, no keyword of any mode, of two bytes more than the buffer, whose
\* title ends in U+00E9 so that the buffer ends between the two bytes of
\* that character; and a focus event of one byte more than the buffer.
\* Pad(n) is a title of n letters x.
Record(name, args) == Bytes(name) \o Bytes(">>") \o args \o Bytes("\n")
Pad(n) == [i \in 1..n |-> 120]
EventRecords ==
  { Record("monitoradded", Bytes("1")),
    Record("openwindow", <<195, 169>> \o Bytes(",b")),
    Record("activewindow", Pad(BufSize - Len("activewindow") - 3) \o <<195, 169>>),
    Record("activewindow", Pad(BufSize - Len("activewindow") - 2)) }

\* live objects of the compositor, as the values their JSON texts parse to
JInt(n) == IF n >= 0 THEN PosInt(U64(n)) ELSE NegInt(U64(0 - n))
Object(r) ==
  JObject([k \in { Chars(f) : f \in DOMAIN r } |-> r[CHOOSE f \in DOMAIN r : Chars(f) = k]])
Monitor(id, name, active, focused) ==
  Object([id |-> JInt(id), name |-> JString(Chars(name)),
          activeWorkspace |-> Object([id |-> JInt(active)]), focused |-> JBool(focused)])
MonitorS(id, name, active, focused, special) ==
  Object([id |-> JInt(id), name |-> JString(Chars(name)),
          activeWorkspace |-> Object([id |-> JInt(active)]), focused |-> JBool(focused),
          specialWorkspace |-> Object([id |-> JInt(special)])])
Workspace(id, name, monitor) ==
  Object([id |-> JInt(id), name |-> JString(Chars(name)), monitor |-> JString(Chars(monitor))])
Client(monitor, wsid, wsname) ==
  Object([monitor |-> JInt(monitor),
          workspace |-> Object([id |-> JInt(wsid), name |-> JString(Chars(wsname))])])

\* what the query socket may answer inside the watch loop: a failure of
\* the connect, a response that is no JSON, a response of the documents
\* asked for, one of too few documents, and one whose monitor lacks a key
\* the projection reads
LoopReplies(what) ==
  { Failure("failed to open socket 1"), Response(<<Chars("[{")>>) }
  \cup
  (IF what = "monitors"
   THEN { Docs(<<JArray(<<Monitor(0, "DP-1", 1, TRUE)>>)>>) }
   ELSE IF what = "workspaces"
   THEN { Docs(<<JArray(<<Workspace(1, "1", "DP-1")>>),
                 JArray(<<Monitor(0, "DP-1", 1, TRUE)>>)>>),
          Docs(<<JArray(<<Workspace(1, "1", "DP-1")>>)>>),
          Docs(<<JArray(<<Workspace(1, "1", "DP-1")>>),
                 JArray(<<Object([id |-> JInt(0), name |-> JString(Chars("DP-1")),
                                  focused |-> JBool(TRUE)])>>)>>) }
   ELSE { Docs(<<JArray(<<Client(0, 1, "one")>>),
                 JArray(<<Monitor(0, "DP-1", 1, TRUE)>>)>>),
          Docs(<<JArray(<<Client(0, 1, "one")>>)>>),
          Docs(<<JArray(<<Client(0, 1, "one")>>),
                 JArray(<<Object([id |-> JInt(0), focused |-> JBool(TRUE)])>>)>>) })

\* the environment of a process started inside a compositor session
DefaultEnv == Env(Some(Chars("a1")), Some(Chars("/run")), FALSE, None, Some(Chars("/h")))
\* the environments of the watch loop: that one, one without instance
\* signature, and, where the config file is asked for, one without
\* XDG_CONFIG_HOME and HOME
LoopEnvs(cmd) ==
  { DefaultEnv, [DefaultEnv EXCEPT !.instance = None] }
  \cup (IF cmd.config THEN { [DefaultEnv EXCEPT !.home = None] } ELSE {})

\* ==================================================================== Init
Init ==
  /\ command \in Commands
  /\ config_workspaces = None
  /\ pc = "start"
  /\ status = None
  /\ socket = "unopened"
  /\ wire = <<>>
  /\ peer = "open"
  /\ sends = 0
  /\ lastRead = "none"
  /\ lastLen = 0
  /\ events = <<>>
  /\ scanned = 0
  /\ emits = 0
  /\ attempts = 0
  /\ reply = NoReply
  /\ result = NoResult
  /\ stdout = <<>>
  /\ stderr = ""
  /\ env \in LoopEnvs(command)
  /\ paths = EmptyMap
  /\ sent = <<>>
  /\ served = 0

\* ================================================================= actions
\* print_data returns, the query socket having answered r: the primed
\* values of reply, result, stdout and stderr.
Emit(r) ==
  LET res == print_data(command, config_workspaces, env, r)
  IN /\ reply' = r
     /\ result' = res
     /\ stdout' = IF res.ok THEN Append(stdout, res.val) ELSE stdout
     /\ stderr' = IF res.ok THEN stderr ELSE res.err

\* lines 59-70: load the configured workspaces if --config was given
LoadConfig ==
  /\ pc = "start"
  /\ IF command.what = "workspaces" /\ command.config
     THEN \E file \in ConfigFiles :
            LET w == get_config_workspaces(env, file)
            IN IF w.ok
               THEN /\ config_workspaces' = Some(w.val)
                    /\ pc' = "init"
                    /\ UNCHANGED <<status, stderr>>
               ELSE /\ stderr' = w.err
                    /\ pc' = "exited"
                    /\ status' = Some(ExitOk)
                    /\ UNCHANGED config_workspaces
     ELSE /\ pc' = "init"
          /\ UNCHANGED <<config_workspaces, status, stderr>>
  /\ UNCHANGED <<command, socket, wire, peer, sends, lastRead, lastLen, events, scanned,
                 emits, attempts, reply, result, stdout>>
  /\ UNCHANGED aux

\* lines 72-75: the eventless emission, and the return of a --once run.
\* No event socket is open yet, so nothing happens beside the query.
InitPrint ==
  /\ pc = "init"
  /\ \E r \in LoopReplies(command.what) : Emit(r)
  /\ attempts' = attempts + 1
  /\ emits' = 1
  /\ IF IsPanic(result') THEN pc' = "exited" /\ status' = Some(ExitPanic)
     ELSE /\ pc' = IF command.once THEN "exited" ELSE "open"
          /\ status' = IF pc' = "exited" THEN Some(ExitOk) ELSE status
  /\ UNCHANGED <<command, config_workspaces, socket, wire, peer, sends, lastRead, lastLen,
                 events, scanned>>
  /\ UNCHANGED aux

\* hypr.rs line 11: the path of the event socket, then the connect; the
\* error of the path is passed on as it is
open_events(e, connects) ==
  IF ~get_hypr_socket(Chars("socket2"), e).ok THEN get_hypr_socket(Chars("socket2"), e)
  ELSE IF connects THEN Ok("open")
  ELSE Err("failed to open socket 2")

\* lines 78-84: open the event socket
OpenEvents ==
  /\ pc = "open"
  /\ \E connects \in BOOLEAN :
       LET s == open_events(env, connects)
       IN IF s.ok
          THEN /\ socket' = s.val
               /\ pc' = "loop"
               /\ UNCHANGED <<status, stderr>>
          ELSE /\ stderr' = s.err
               /\ pc' = "exited"
               /\ status' = Some(ExitFail)
               /\ UNCHANGED socket
  /\ emits' = 0
  /\ UNCHANGED <<command, config_workspaces, wire, peer, sends, lastRead, lastLen, events,
                 scanned, attempts, reply, result, stdout>>
  /\ UNCHANGED aux

\* the compositor writes a record on the event socket, while main waits in
\* socket.read or in print_data
Send ==
  /\ pc \in {"loop", "print"} /\ peer = "open" /\ sends < MaxSends
  /\ \E rec \in EventRecords : wire' = wire \o rec
  /\ sends' = sends + 1
  /\ UNCHANGED <<command, config_workspaces, pc, status, socket, peer, lastRead, lastLen,
                 events, scanned, emits, attempts, reply, result, stdout, stderr>>
  /\ UNCHANGED aux

\* the compositor closes the event socket
Close ==
  /\ pc \in {"loop", "print"} /\ peer = "open"
  /\ peer' = "closed"
  /\ UNCHANGED <<command, config_workspaces, pc, status, socket, wire, sends, lastRead,
                 lastLen, events, scanned, emits, attempts, reply, result, stdout, stderr>>
  /\ UNCHANGED aux

\* lines 93, 100-103 with hypr.rs line 19: socket.read fails; the loop continues
ReadError ==
  /\ pc = "loop"
  /\ lastRead' = "ioerr"
  /\ lastLen' = 0
  /\ events' = <<>>
  /\ scanned' = 0
  /\ emits' = 0
  /\ stderr' = "failed to read from socket 2"
  /\ UNCHANGED <<command, config_workspaces, pc, status, socket, wire, peer, sends,
                 attempts, reply, result, stdout>>
  /\ UNCHANGED aux

\* lines 93-108 with hypr.rs lines 17-34: socket.read returns, the bytes are
\* decoded and the batch is scanned up to its first keyword event, where
\* print_data is called.  A read on the stream socket blocks until bytes are
\* there or the peer has closed, and delivers the bytes available, at most
\* BufSize of them.
ReadTurn ==
  /\ pc = "loop"
  /\ wire # <<>> \/ peer = "closed"
  /\ \E len \in {IF Len(wire) < BufSize THEN Len(wire) ELSE BufSize} :
       /\ LET e == read_events(SubSeq(wire, 1, len))
          IN /\ wire' = Drop(wire, len + 1)
             /\ lastLen' = len
             /\ IF ~e.ok
                THEN /\ lastRead' = "utf8err"
                     /\ events' = <<>>
                     /\ scanned' = 0
                     /\ emits' = 0
                     /\ stderr' = e.err
                     /\ UNCHANGED <<pc, status, attempts>>
                ELSE
                  /\ lastRead' = "ok"
                  /\ events' = e.val
                  /\ IF e.val = <<>>
                     THEN /\ stderr' = "hyprland event socket has closed"
                          /\ pc' = "exited"
                          /\ status' = Some(ExitFail)
                          /\ scanned' = 0
                          /\ emits' = 0
                          /\ UNCHANGED attempts
                     ELSE
                       LET sc == Scan(e.val, Keywords(command.what))
                       IN /\ scanned' = sc.examined
                          /\ emits' = sc.prints
                          /\ attempts' = attempts + sc.prints
                          /\ pc' = IF sc.prints = 0 THEN "loop" ELSE "print"
                          /\ UNCHANGED <<status, stderr>>
  /\ UNCHANGED <<command, config_workspaces, socket, peer, sends, reply, result, stdout>>

ReadEvents == ReadTurn /\ UNCHANGED aux

\* lines 108-111 with lines 115-134 and hypr.rs lines 38-55: print_data, which
\* waited for the answer of the query socket, prints and returns, and the
\* `break` leads back to socket.read; a panic inside it ends the process
PrintReturns ==
  /\ pc = "print"
  /\ \E r \in LoopReplies(command.what) : Emit(r)
  /\ IF IsPanic(result') THEN pc' = "exited" /\ status' = Some(ExitPanic)
     ELSE pc' = "loop" /\ UNCHANGED status
  /\ UNCHANGED <<command, config_workspaces, socket, wire, peer, sends, lastRead, lastLen,
                 events, scanned, emits, attempts>>

PrintData == PrintReturns /\ UNCHANGED aux

Next ==
  LoadConfig \/ InitPrint \/ OpenEvents \/ Send \/ Close \/ ReadError \/ ReadEvents
  \/ PrintData

Spec == Init /\ [][Next]_vars

\* ============================================== the workspaces projection
\* A run of `hyprwatch --once workspaces [--monitor M] [--config]` against
\* each state of the compositor: the inputs of prepare_workspaces are drawn
\* in the initial state, and Project applies it.

\* monitors of the compositor: the third has a special workspace open whose
\* id is negative, as the compositor numbers them; the fourth lacks
\* `focused`, and the last has a text for it
WsMonitors ==
  { Monitor(0, "DP-1", 1, TRUE),
    MonitorS(1, "DP-2", 2, FALSE, 3),
    MonitorS(0, "DP-1", 1, FALSE, 0 - 99),
    Object([id |-> JInt(1), name |-> JString(Chars("DP-2")),
            activeWorkspace |-> Object([id |-> JInt(2)])]),
    Object([id |-> JInt(1), name |-> JString(Chars("DP-2")),
            activeWorkspace |-> Object([id |-> JInt(2)]),
            focused |-> JString(Chars("yes"))]) }

WsWorkspaces ==
  { Workspace(1, "1", "DP-1"),
    Workspace(2, "web", "DP-2"),
    Workspace(3, "3", "DP-2"),
    Workspace(0 - 99, "special", "DP-1") }

Info(id, name, monitor) == [id |-> id, name |-> name, monitor |-> monitor]
WsConfigRecords ==
  { Info(Some(U64(1)), None, Some(Chars("DP-1"))),
    Info(None, Some(Chars("web")), None) }

\* the lists of at most n elements of S that name no element twice, as the
\* compositor lists its monitors, workspaces and clients
Listings(S, n) == { l \in SeqsUpTo(S, n) : \A a, b \in 1..Len(l) : a # b => l[a] # l[b] }

InitWs ==
  /\ config_workspaces \in
       {None} \cup { Some(c) : c \in SeqsUpTo(WsConfigRecords, MaxConfig) }
  /\ \E m \in {None, Some(Chars("DP-1"))} :
       command = Command("workspaces", TRUE, m, IsSome(config_workspaces), None)
  /\ \E ws \in Listings(WsWorkspaces, MaxWorkspaces), ms \in Listings(WsMonitors, MaxMonitors) :
       reply = Docs(<<JArray(ws), JArray(ms)>>)
  /\ pc = "project"
  /\ status = None
  /\ socket = "unopened"
  /\ wire = <<>>
  /\ peer = "open"
  /\ sends = 0
  /\ lastRead = "none"
  /\ lastLen = 0
  /\ events = <<>>
  /\ scanned = 0
  /\ emits = 0
  /\ attempts = 0
  /\ result = NoResult
  /\ stdout = <<>>
  /\ stderr = ""
  /\ env = DefaultEnv
  /\ paths = EmptyMap
  /\ sent = <<>>
  /\ served = 0

\* main.rs lines 73-75 in a --once run: one print_data, then return
Project ==
  /\ pc = "project"
  /\ LET res == print_data(command, config_workspaces, env, reply)
     IN /\ result' = res
        /\ stdout' = IF res.ok THEN Append(stdout, res.val) ELSE stdout
        /\ stderr' = IF res.ok THEN stderr ELSE res.err
        /\ IF IsPanic(res) THEN status' = Some(ExitPanic) ELSE status' = Some(ExitOk)
  /\ attempts' = attempts + 1
  /\ emits' = 1
  /\ pc' = "exited"
  /\ UNCHANGED <<command, config_workspaces, socket, wire, peer, sends, lastRead, lastLen,
                 events, scanned, reply>>
  /\ UNCHANGED aux

NextProject == Project

SpecWs == InitWs /\ [][NextProject]_vars

\* ================================================================== claims
Range(arr) == { arr[i] : i \in 1..Len(arr) }
Names(evs) == { evs[i].name : i \in 1..Len(evs) }

\* the keyword set the spec gives each mode
ModeKeywords ==
  [monitors |-> {Chars("focusedmon"), Chars("monitorremoved"), Chars("monitoradded")},
   workspaces |-> {Chars("focusedmon"), Chars("monitorremoved"), Chars("monitoradded"),
                   Chars("workspace"), Chars("createworkspace"),
                   Chars("destroyworkspace"), Chars("moveworkspace"),
                   Chars("openwindow"), Chars("closewindow"), Chars("movewindow")},
   clients |-> {Chars("openwindow"), Chars("closewindow"), Chars("movewindow"),
                Chars("changefloatingmode"), Chars("fullscreen"), Chars("windowtitle"),
                Chars("activewindowv2")}]

\* the last socket.read delivered a non-empty batch of events
BatchRead == lastRead = "ok" /\ events # <<>>
\* some event of the batch is a keyword of the active mode
BatchMatches == Names(events) \cap ModeKeywords[command.what] # {}
\* the 1-based position of the first such event
FirstMatch ==
  CHOOSE i \in 1..Len(events) :
    /\ events[i].name \in ModeKeywords[command.what]
    /\ \A j \in 1..(i - 1) : events[j].name \notin ModeKeywords[command.what]

\* C1: in LISTENING, in every mode, a successfully read non-empty batch is
\* followed by a re-emission if and only if one of its event names is in the
\* keyword set of the active mode; in monitors mode a batch of openwindow
\* events alone triggers none, a batch with a monitoradded event triggers one.
\* emits counts the calls of print_data the read led to, and main is inside
\* print_data only on behalf of such a batch.
C1_EmitIffKeyword ==
  /\ BatchRead =>
       /\ (emits >= 1) <=> BatchMatches
       /\ (command.what = "monitors" /\ Names(events) = {Chars("openwindow")}) => emits = 0
       /\ (command.what = "monitors" /\ Chars("monitoradded") \in Names(events)) => emits = 1
  /\ pc = "print" => (BatchRead /\ BatchMatches /\ emits = 1)

C1_Witness ==
  /\ pc = "loop" /\ BatchRead
  /\ command.what = "monitors"
  /\ Chars("monitoradded") \in Names(events)
  /\ emits = 1 /\ attempts = 2 /\ Len(stdout) = 2

\* C2: a batch causes at most one emission: it is scanned in order, the first
\* event whose name is a keyword triggers exactly one print_data, and the
\* events behind it are not examined.
C2_OneEmissionPerBatch ==
  BatchRead =>
    /\ emits <= 1
    /\ BatchMatches => emits = 1 /\ scanned = FirstMatch
    /\ ~BatchMatches => scanned = Len(events)

C2_Witness ==
  /\ BatchRead
  /\ Len(events) >= 2
  /\ \A i \in 1..Len(events) : events[i].name \in ModeKeywords[command.what]
  /\ emits = 1 /\ scanned = 1

\* C3: a read of zero bytes ends the loop in CLOSED with a failure status and
\* without an emission, and nothing is read or emitted afterwards; a
\* non-empty batch without a keyword causes no emission and leaves the loop
\* in LISTENING.
C3_ZeroReadCloses ==
  /\ []((lastRead = "ok" /\ lastLen = 0)
          => (pc = "exited" /\ status = Some(ExitFail) /\ emits = 0))
  /\ []((BatchRead /\ ~BatchMatches) => (emits = 0 /\ pc = "loop" /\ status = None))
  /\ [][pc = "exited" => (pc' = "exited" /\ attempts' = attempts /\ stdout' = stdout
                          /\ wire' = wire /\ lastRead' = lastRead)]_vars

C3_Witness ==
  /\ lastRead = "ok" /\ lastLen = 0
  /\ pc = "exited" /\ status = Some(ExitFail)
  /\ stderr = "hyprland event socket has closed"

\* C4: the loop reaches CLOSED only after an event read that returned zero
\* bytes; a read that delivers at least one byte leaves the loop in LISTENING.
C4_ClosedOnlyOnZeroRead ==
  (socket = "open" /\ pc = "exited" /\ status = Some(ExitFail)) => lastLen = 0

\* C5: an emission that fails inside the loop is skipped: the process does
\* not terminate and the loop stays in LISTENING.
C5_FailedEmissionSkipped ==
  (BatchRead /\ emits >= 1 /\ pc # "print" /\ ~result.ok) => (pc = "loop" /\ status = None)

\* C6: exactly one print_data is attempted before the event socket is opened
\* or read; a --once run ends after it without opening the socket; otherwise
\* main goes on to open the socket, and every later print_data belongs to a
\* read that delivered a keyword event.
C6_InitThenListen ==
  /\ [](pc = "open" => attempts = 1)
  /\ []((socket = "open" \/ lastRead # "none") => (attempts >= 1 /\ ~command.once))
  /\ []((command.once /\ pc = "exited" /\ (command.config => IsSome(config_workspaces)))
          => (attempts = 1 /\ socket = "unopened"))
  /\ [][attempts' # attempts =>
          /\ attempts' = attempts + 1
          /\ \/ pc = "init" /\ attempts = 0
             \/ pc = "loop" /\ lastRead' = "ok" /\ wire' # wire
                /\ Names(events') \cap ModeKeywords[command.what] # {}]_vars
  /\ [][(pc = "init" /\ ~command.once) => pc' = "open"]_vars
  /\ [][(pc = "init" /\ command.once) => (pc' = "exited" /\ socket' = "unopened")]_vars

\* C7: when --config is given and the config cannot be loaded, nothing is
\* emitted, the event socket is never opened, and the process ends with a
\* non-zero status.
C7_ConfigFailureFatal ==
  (command.config /\ pc = "exited" /\ attempts = 0)
    => (stdout = <<>> /\ socket = "unopened" /\ IsSome(status) /\ status # Some(ExitOk))

\* C8 as stated: the three keyword sets are pairwise disjoint, so that the
\* keyword set of the active mode shares no name with that of another mode.
C8_PairwiseDisjoint ==
  \A other \in Modes \ {command.what} :
    Range(Keywords(command.what)) \cap Range(Keywords(other)) = {}

\* C8 amended: the monitor and client keyword sets are disjoint; every
\* monitor keyword is also a workspace keyword; the workspace and client sets
\* share exactly openwindow, closewindow and movewindow.  So a name triggers
\* re-emission in at most two modes, and whenever a batch triggers one in
\* monitors mode it would not in clients mode.
C8_KeywordOverlap ==
  /\ Range(MONITOR_EVENTS) \cap Range(CLIENT_EVENTS) = {}
  /\ Range(MONITOR_EVENTS) \subseteq Range(WORKSPACE_EVENTS)
  /\ Range(WORKSPACE_EVENTS) \cap Range(CLIENT_EVENTS)
       = {Chars("openwindow"), Chars("closewindow"), Chars("movewindow")}
  /\ (BatchRead /\ emits = 1 /\ scanned = Len(events))
       => ~(Contains(MONITOR_EVENTS, events[scanned].name)
            /\ Contains(CLIENT_EVENTS, events[scanned].name))

C8_Witness ==
  /\ BatchRead /\ command.what = "workspaces" /\ emits = 1
  /\ events[scanned].name = Chars("openwindow")
  /\ Contains(CLIENT_EVENTS, events[scanned].name)

\* ------------------------------------------- claims on the workspaces mode
\* a workspaces projection has been made and printed
WsProjected ==
  /\ command.what = "workspaces" /\ pc = "exited" /\ reply.kind = "docs"
  /\ result.ok /\ IsArray(result.val)
\* the lists of the query the projection was made from
LiveWorkspaces == reply.docs[1].items
LiveMonitors == reply.docs[2].items
\* the value of key k of object e, and the truth value of a flag
Field(e, k) == Unwrap(Get(e, Chars(k)))
Flag(e, k) == Field(e, k).b
\* the live workspaces the monitor filter retains
IsRetained(w) ==
  IsNone(command.monitor) \/ Get(w, Chars("monitor")) = Some(JString(Unwrap(command.monitor)))
\* the entries of the output that come from live workspaces
IsLiveEntry(e) == Has(e, Chars("shown"))
Entries == result.val.items
\* the monitors whose active workspace has this id
ShowingMonitors(id) ==
  { i \in 1..Len(LiveMonitors) : GetIn(LiveMonitors[i], "activeWorkspace", "id") = Some(id) }

\* C9: every retained live workspace is emitted with shown = true exactly
\* when its id is the active workspace id of a monitor of the same query, and
\* active = that monitor's focused flag, false when not shown; so active
\* implies shown.  With the one monitor {activeWorkspace.id = 1, focused} and
\* the workspaces 1 and 2, workspace 1 is shown and active, workspace 2 neither.
C9_ShownActive ==
  WsProjected =>
    /\ \A i \in 1..Len(LiveWorkspaces) :
         IsRetained(LiveWorkspaces[i]) =>
           \E k \in 1..Len(Entries) :
             /\ IsLiveEntry(Entries[k])
             /\ Field(Entries[k], "id") = Field(LiveWorkspaces[i], "id")
             /\ Field(Entries[k], "name") = Field(LiveWorkspaces[i], "name")
    /\ \A k \in 1..Len(Entries) :
         LET e == Entries[k]
         IN IsLiveEntry(e) =>
              /\ Flag(e, "shown") <=> ShowingMonitors(Field(e, "id")) # {}
              /\ Flag(e, "active") => Flag(e, "shown")
              /\ Flag(e, "shown") =>
                   \E i \in ShowingMonitors(Field(e, "id")) :
                     Field(e, "active") = Field(LiveMonitors[i], "focused")
    /\ (LiveMonitors = <<Monitor(0, "DP-1", 1, TRUE)>>
        /\ LiveWorkspaces = <<Workspace(1, "1", "DP-1"), Workspace(2, "web", "DP-2")>>
        /\ IsNone(command.monitor))
         => \A k \in 1..Len(Entries) :
              LET e == Entries[k]
              IN IsLiveEntry(e) =>
                   /\ Field(e, "id") = JInt(1) => (Flag(e, "shown") /\ Flag(e, "active"))
                   /\ Field(e, "id") = JInt(2) => (~Flag(e, "shown") /\ ~Flag(e, "active"))

C9_Witness ==
  /\ WsProjected
  /\ LiveMonitors = <<Monitor(0, "DP-1", 1, TRUE), MonitorS(1, "DP-2", 2, FALSE, 3)>>
  /\ LiveWorkspaces = <<Workspace(1, "1", "DP-1"), Workspace(2, "web", "DP-2")>>
  /\ IsNone(config_workspaces)
  /\ Len(Entries) = 2
  /\ Flag(Entries[1], "shown") /\ Flag(Entries[1], "active")
  /\ Flag(Entries[2], "shown") /\ ~Flag(Entries[2], "active")

\* C10: a live workspace whose id is the special workspace id of a monitor
\* is emitted with shown = true and active = true, whatever that monitor's
\* focused flag and whether or not it is a monitor's active workspace.
C10_SpecialShownActive ==
  WsProjected =>
    \A k \in 1..Len(Entries) :
      LET e == Entries[k]
      IN (IsLiveEntry(e)
          /\ \E i \in 1..Len(LiveMonitors) :
               GetIn(LiveMonitors[i], "specialWorkspace", "id") = Some(Field(e, "id")))
           => (Flag(e, "shown") /\ Flag(e, "active"))

\* ==================================================== the config merge
\* A run of `hyprwatch --once workspaces --config [--monitor M]`: the config
\* records and the live lists are drawn in the initial state, and Project
\* applies prepare_workspaces.  The live list names each workspace once; two
\* live workspaces bear the name "web"; the config records, which may repeat,
\* declare ids and names some of which are live, and one declares the
\* greatest id a record can hold.
MergeWorkspaces ==
  { Workspace(1, "1", "DP-1"),
    Workspace(2, "web", "DP-2"),
    Workspace(3, "web", "DP-1"),
    Workspace(5, "one", "DP-2") }

MergeRecords ==
  { Info(Some(U64(1)), None, Some(Chars("DP-1"))),
    Info(None, Some(Chars("web")), None),
    Info(Some(U64(5)), None, Some(Chars("DP-1"))),
    Info(Some(U64(2)), None, Some(Chars("DP-2"))),
    Info(None, Some(Chars("two")), Some(Chars("DP-1"))),
    Info(Some(U64Max), None, None) }

MergeMonitors ==
  { <<Monitor(0, "DP-1", 1, TRUE)>>,
    <<Monitor(0, "DP-1", 1, TRUE), Monitor(1, "DP-2", 2, FALSE)>> }

InitMerge ==
  /\ config_workspaces \in { Some(c) : c \in SeqsUpTo(MergeRecords, MaxConfig) }
  /\ \E m \in {None, Some(Chars("DP-1"))} :
       command = Command("workspaces", TRUE, m, TRUE, None)
  /\ \E ws \in Listings(MergeWorkspaces, MaxWorkspaces), ms \in MergeMonitors :
       reply = Docs(<<JArray(ws), JArray(ms)>>)
  /\ pc = "project"
  /\ status = None
  /\ socket = "unopened"
  /\ wire = <<>>
  /\ peer = "open"
  /\ sends = 0
  /\ lastRead = "none"
  /\ lastLen = 0
  /\ events = <<>>
  /\ scanned = 0
  /\ emits = 0
  /\ attempts = 0
  /\ result = NoResult
  /\ stdout = <<>>
  /\ stderr = ""
  /\ env = DefaultEnv
  /\ paths = EmptyMap
  /\ sent = <<>>
  /\ served = 0

SpecMerge == InitMerge /\ [][NextProject]_vars

\* ------------------------------------------- claims on the config merge
\* a workspaces projection with config records has been made and printed
MergeProjected == WsProjected /\ IsSome(config_workspaces)
Cfg == Unwrap(config_workspaces)
\* the live workspaces the monitor filter retains, in query order
RECURSIVE RetainedOf(_)
RetainedOf(ws) ==
  IF ws = <<>> THEN <<>>
  ELSE (IF IsRetained(Head(ws)) THEN <<Head(ws)>> ELSE <<>>) \o RetainedOf(Tail(ws))
Retained == RetainedOf(LiveWorkspaces)
\* the record declares the id, or the name, of workspace w
RecordMatches(info, w) ==
  \/ IsSome(info.id) /\ Get(w, Chars("id")) = Some(PosInt(Unwrap(info.id)))
  \/ IsSome(info.name) /\ Get(w, Chars("name")) = Some(JString(Unwrap(info.name)))
\* the fields a record defines, as the members of an object
DeclaredBy(info) ==
  [x \in (IF IsSome(info.id) THEN {Chars("id")} ELSE {})
         \cup (IF IsSome(info.name) THEN {Chars("name")} ELSE {})
         \cup (IF IsSome(info.monitor) THEN {Chars("monitor")} ELSE {})
     |-> IF x = Chars("id") THEN PosInt(Unwrap(info.id))
         ELSE IF x = Chars("name") THEN JString(Unwrap(info.name))
         ELSE JString(Unwrap(info.monitor))]
\* the members of object e but those with the keys given
Without(e, keys) == [x \in DOMAIN e.map \ { Chars(k) : k \in keys } |-> e.map[x]]
\* entry e is the entry synthesized for record info: the fields the record
\* defines, dynamic = false and exists = false, and nothing else
IsSynthOf(e, info) ==
  /\ Get(e, Chars("dynamic")) = Some(JBool(FALSE))
  /\ Get(e, Chars("exists")) = Some(JBool(FALSE))
  /\ Without(e, {"dynamic", "exists"}) = DeclaredBy(info)
IsSynthEntry(e) == Get(e, Chars("exists")) = Some(JBool(FALSE))
CountSynth(info) == Cardinality({ k \in 1..Len(Entries) : IsSynthOf(Entries[k], info) })
Occurrences(info) == Cardinality({ i \in 1..Len(Cfg) : Cfg[i] = info })
\* the record is compatible with the monitor filter
Compatible(info) ==
  IsNone(command.monitor) \/ IsNone(info.monitor) \/ info.monitor = command.monitor
LiveEntriesOf(w) ==
  { k \in 1..Len(Entries) :
      /\ IsLiveEntry(Entries[k])
      /\ Field(Entries[k], "id") = Field(w, "id")
      /\ Field(Entries[k], "name") = Field(w, "name") }

\* C11: a config record that declares the id, or the name, of a retained live
\* workspace gets no synthesized exists:false entry, and that workspace's
\* entry carries dynamic:false, exists:true; a record matching no retained
\* live workspace and compatible with the filter is synthesized exactly once;
\* a live workspace no record matches carries dynamic:true.  (Compatible is
\* taken here in the narrow sense, no filter or the declared monitor equal
\* to the filter; a record without monitor under a filter is C12's case.)
C11_NoDuplicateOfLive ==
  MergeProjected =>
    /\ \A i \in 1..Len(Cfg) :
         LET info == Cfg[i]
             matched == { j \in 1..Len(Retained) : RecordMatches(info, Retained[j]) }
         IN /\ matched # {} =>
                 /\ CountSynth(info) = 0
                 /\ \A j \in matched : \A k \in LiveEntriesOf(Retained[j]) :
                      ~Flag(Entries[k], "dynamic") /\ Flag(Entries[k], "exists")
            /\ (matched = {} /\ (IsNone(command.monitor) \/ info.monitor = command.monitor))
                 => CountSynth(info) = Occurrences(info)
    /\ \A j \in 1..Len(Retained) :
         (\A i \in 1..Len(Cfg) : ~RecordMatches(Cfg[i], Retained[j]))
           => \A k \in LiveEntriesOf(Retained[j]) :
                Flag(Entries[k], "dynamic") /\ Flag(Entries[k], "exists")

\* C12: for each config record that no retained live workspace consumes and
\* that is compatible with the monitor filter (no filter, or no declared
\* monitor, or the declared monitor equal to the filter) exactly one entry
\* is synthesized, and none for a record that is not compatible; each
\* synthesized entry carries the fields its record defines, dynamic = false
\* and exists = false, and never shown or active.  (Stated for the records
\* that match no retained live workspace, which are unconsumed under every
\* reading of the matching order.)
C12_SynthesizedEntries ==
  MergeProjected =>
    /\ \A i \in 1..Len(Cfg) :
         LET info == Cfg[i]
         IN /\ (Compatible(info)
                /\ \A j \in 1..Len(Retained) : ~RecordMatches(info, Retained[j]))
                 => CountSynth(info) = Occurrences(info)
            /\ ~Compatible(info) => CountSynth(info) = 0
    /\ \A k \in 1..Len(Entries) :
         IsSynthEntry(Entries[k]) =>
           /\ \E i \in 1..Len(Cfg) : IsSynthOf(Entries[k], Cfg[i])
           /\ ~Has(Entries[k], Chars("shown")) /\ ~Has(Entries[k], Chars("active"))

\* the id of an emitted entry, if it has one
EntryKey(e) == AndThen(Get(e, Chars("id")), AsU64)
\* the elements of seq that satisfy the test given as a set of indices
RECURSIVE Pick(_, _, _)
Pick(seq, idx, k) ==
  IF k > Len(seq) THEN <<>>
  ELSE (IF k \in idx THEN <<seq[k]>> ELSE <<>>) \o Pick(seq, idx, k + 1)
\* a is b with some elements left out
RECURSIVE IsSubseq(_, _)
IsSubseq(a, b) ==
  IF a = <<>> THEN TRUE
  ELSE IF b = <<>> THEN FALSE
  ELSE IF Head(a) = Head(b) THEN IsSubseq(Tail(a), Tail(b))
  ELSE IsSubseq(a, Tail(b))
\* what is left of a live entry when the derived fields are taken away
Underived(e) == JObject(Without(e, {"shown", "active", "dynamic", "exists"}))
\* what is left of a synthesized entry
Declared(e) == Without(e, {"dynamic", "exists"})
\* the emitted live entries, and the emitted synthesized entries, with key key
LiveWithKey(key) ==
  Pick(Entries, { k \in 1..Len(Entries) :
                    IsLiveEntry(Entries[k]) /\ EntryKey(Entries[k]) = key }, 1)
SynthWithKey(key) ==
  Pick(Entries, { k \in 1..Len(Entries) :
                    IsSynthEntry(Entries[k]) /\ EntryKey(Entries[k]) = key }, 1)
RetainedWithKey(key) ==
  Pick(Retained, { j \in 1..Len(Retained) : EntryKey(Retained[j]) = key }, 1)
CfgWithKey(key) == Pick(Cfg, { i \in 1..Len(Cfg) : Cfg[i].id = key }, 1)
Mapped(seq, Op(_)) == [k \in 1..Len(seq) |-> Op(seq[k])]

\* C13: the emitted list is ascending by id, the entries without id come
\* after all entries with one, and entries with equal ids, or both without
\* id, keep the order of the list before the sort: the live entries in query
\* order, then the synthesized entries in config order.
C13_SortedStable ==
  MergeProjected =>
    /\ \A k, l \in 1..Len(Entries) :
         k < l =>
           /\ (IsSome(EntryKey(Entries[k])) /\ IsSome(EntryKey(Entries[l])))
                => U64Le(Unwrap(EntryKey(Entries[k])), Unwrap(EntryKey(Entries[l])))
           /\ ~(IsNone(EntryKey(Entries[k])) /\ IsSome(EntryKey(Entries[l])))
           /\ EntryKey(Entries[k]) = EntryKey(Entries[l])
                => ~(IsSynthEntry(Entries[k]) /\ IsLiveEntry(Entries[l]))
    /\ \A k \in 1..Len(Entries) :
         LET key == EntryKey(Entries[k])
         IN /\ Mapped(LiveWithKey(key), Underived) = RetainedWithKey(key)
            /\ IsSubseq(Mapped(SynthWithKey(key), Declared),
                        Mapped(CfgWithKey(key), DeclaredBy))

\* the matching order of C18: the first record not yet consumed whose id is
\* the workspace's id; only if there is none, the first one not yet consumed
\* whose name is the workspace's name (0-based index, None if there is none)
FirstOf(idx) == IF idx = {} THEN None ELSE Some((CHOOSE i \in idx : \A j \in idx : i <= j) - 1)
ChoiceFor(w, consumed) ==
  LET free == { i \in 1..Len(Cfg) : \A c \in 1..Len(consumed) : consumed[c] # i - 1 }
      byId == { i \in free : IsSome(Cfg[i].id) /\ Cfg[i].id = AsU64(Field(w, "id")) }
      byName == { i \in free : IsSome(Cfg[i].name) /\ Cfg[i].name = AsStr(Field(w, "name")) }
  IN IF byId # {} THEN FirstOf(byId) ELSE FirstOf(byName)
RECURSIVE ConsumptionFrom(_, _)
ConsumptionFrom(ws, consumed) ==
  IF ws = <<>> THEN consumed
  ELSE ConsumptionFrom(Tail(ws), consumed \o ChoiceFor(Head(ws), consumed))
\* the config indices the projection pushed on `existing`, in live order
Existing ==
  AddAttributes(Retained, Unwrap(ShownMap(reply.docs)), config_workspaces,
                [ws |-> <<>>, existing |-> <<>>]).val.existing

\* C18: the retained live workspaces, in live order, each consume the first
\* not yet consumed record with their id, else the first not yet consumed
\* record with their name; no record is consumed twice; a live workspace is
\* dynamic exactly when it consumed none.
C18_MatchingOrder ==
  MergeProjected =>
    /\ Existing = ConsumptionFrom(Retained, <<>>)
    /\ \A a, b \in 1..Len(Existing) : a # b => Existing[a] # Existing[b]

\* C19: an emitted entry with exists = false has neither the id nor the name
\* of a workspace of the live list of the same query, retained or not.
C19_AbsentMeansNotLive ==
  MergeProjected =>
    \A k \in 1..Len(Entries) : \A i \in 1..Len(LiveWorkspaces) :
      IsSynthEntry(Entries[k]) =>
        /\ ~(Has(Entries[k], Chars("id"))
             /\ Get(Entries[k], Chars("id")) = Get(LiveWorkspaces[i], Chars("id")))
        /\ ~(Has(Entries[k], Chars("name"))
             /\ Get(Entries[k], Chars("name")) = Get(LiveWorkspaces[i], Chars("name")))

\* ================================================= the clients projection
\* A run of `hyprwatch --once clients [--monitor M] [--workspace W]`: the
\* filters and the live lists are drawn in the initial state, and Project
\* applies prepare_clients.  The clients: on monitor 0 and workspace 1, on
\* monitor 1 and workspace 2, on a monitor the compositor does not list, on
\* no monitor (-1), on a special workspace, without workspace, and with a
\* workspace without name.
ClClients ==
  { Client(0, 1, "one"),
    Client(1, 2, "two"),
    Client(7, 1, "one"),
    Client(0 - 1, 1, "one"),
    Client(0, 0 - 99, "special"),
    Object([monitor |-> JInt(0)]),
    Object([monitor |-> JInt(1), workspace |-> Object([id |-> JInt(2)])]) }

\* the last monitor has no name
ClMonitors ==
  { Monitor(0, "DP-1", 1, TRUE),
    Monitor(1, "DP-2", 2, FALSE),
    Object([id |-> JInt(1), activeWorkspace |-> Object([id |-> JInt(2)]),
            focused |-> JBool(FALSE)]) }

\* --workspace: absent, an id, a name, a special workspace's id, neither form
ClWorkspaceFilters ==
  { None, Some(Chars("1")), Some(Chars("name:two")), Some(Chars("-99")), Some(Chars("x")) }

InitClients ==
  /\ \E m \in {None, Some(Chars("DP-1"))}, w \in ClWorkspaceFilters :
       command = Command("clients", TRUE, m, FALSE, w)
  /\ config_workspaces = None
  /\ \E cs \in Listings(ClClients, MaxClients), ms \in Listings(ClMonitors, MaxMonitors) :
       reply = Docs(<<JArray(cs), JArray(ms)>>)
  /\ pc = "project"
  /\ status = None
  /\ socket = "unopened"
  /\ wire = <<>>
  /\ peer = "open"
  /\ sends = 0
  /\ lastRead = "none"
  /\ lastLen = 0
  /\ events = <<>>
  /\ scanned = 0
  /\ emits = 0
  /\ attempts = 0
  /\ result = NoResult
  /\ stdout = <<>>
  /\ stderr = ""
  /\ env = DefaultEnv
  /\ paths = EmptyMap
  /\ sent = <<>>
  /\ served = 0

SpecClients == InitClients /\ [][NextProject]_vars

\* --------------------------------------------- claims on the clients mode
\* a clients projection has been made and printed
ClProjected ==
  /\ command.what = "clients" /\ pc = "exited" /\ reply.kind = "docs"
  /\ result.ok /\ IsArray(result.val)
LiveClients == reply.docs[1].items
OutClients == result.val.items
\* the client as the compositor listed it
Listed(e) == JObject(Without(e, {"monitorName"}))
\* the client has a workspace with an integer id and a text name
HasWorkspaceInfo(c) ==
  /\ IsSome(AndThen(GetIn(c, "workspace", "id"), AsI64))
  /\ IsSome(AndThen(GetIn(c, "workspace", "name"), AsStr))
\* the text is a decimal integer with an optional sign
IsIntegerText(f) ==
  LET d == IF f # <<>> /\ Head(f) \in {"+", "-"} THEN Tail(f) ELSE f
  IN d # <<>> /\ \A i \in 1..Len(d) : IsDigit(d[i])
\* the workspace filter f asks for client c
AskedFor(c, f) ==
  /\ HasWorkspaceInfo(c)
  /\ IF StartsWith(f, Chars("name:"))
     THEN GetIn(c, "workspace", "name") = Some(JString(Drop(f, Len("name:") + 1)))
     ELSE IsIntegerText(f) /\ AndThen(GetIn(c, "workspace", "id"), AsI64) = ParseI64(f)
PassesWorkspace(c) ==
  IsNone(command.workspace) \/ AskedFor(c, Unwrap(command.workspace))
\* the names of the monitors that have the client's monitor id
MonitorNames(c) ==
  { Field(LiveMonitors[i], "name").text :
      i \in { j \in 1..Len(LiveMonitors) :
                Has(c, Chars("monitor"))
                /\ Get(LiveMonitors[j], Chars("id")) = Get(c, Chars("monitor")) } }
PassesMonitor(c) ==
  IsNone(command.monitor) \/ Unwrap(command.monitor) \in MonitorNames(c)

\* C14: with a workspace filter, the output holds exactly the clients that
\* have a workspace id and name and whose workspace id is the filter's
\* integer, or whose workspace name is the text after `name:` - those of
\* them that pass the monitor filter, if there is one; clients without
\* workspace id or name are dropped, and a filter of neither form drops all.
C14_WorkspaceFilter ==
  (ClProjected /\ IsSome(command.workspace)) =>
    LET f == Unwrap(command.workspace)
    IN /\ Mapped(OutClients, Listed)
            = Pick(LiveClients,
                   { k \in 1..Len(LiveClients) :
                       AskedFor(LiveClients[k], f) /\ PassesMonitor(LiveClients[k]) }, 1)
       /\ \A k \in 1..Len(OutClients) : HasWorkspaceInfo(OutClients[k])
       /\ (~StartsWith(f, Chars("name:")) /\ ~IsIntegerText(f)) => OutClients = <<>>

\* of the clients on workspaces 1 "one" and 2 "two", the filter `name:two`
\* keeps the second and the filter `1` the first
C14_Witness ==
  /\ ClProjected /\ IsNone(command.monitor)
  /\ LiveClients = <<Client(0, 1, "one"), Client(1, 2, "two")>>
  /\ \/ /\ command.workspace = Some(Chars("name:two"))
        /\ Mapped(OutClients, Listed) = <<Client(1, 2, "two")>>
     \/ /\ command.workspace = Some(Chars("1"))
        /\ Mapped(OutClients, Listed) = <<Client(0, 1, "one")>>

\* C15: a client whose monitor id is that of a listed monitor is emitted
\* with monitorName = that monitor's name, any other client without; with a
\* monitor filter every emitted client has monitorName = the filter; without
\* one every client that passed the workspace filter is emitted; the output
\* keeps the order of the live client list.
C15_MonitorNames ==
  ClProjected =>
    /\ \A k \in 1..Len(OutClients) :
         LET e == OutClients[k]
         IN /\ MonitorNames(Listed(e)) # {}
                 => /\ IsSome(AndThen(Get(e, Chars("monitorName")), AsStr))
                    /\ Field(e, "monitorName").text \in MonitorNames(Listed(e))
            /\ MonitorNames(Listed(e)) = {} => ~Has(e, Chars("monitorName"))
            /\ IsSome(command.monitor)
                 => Get(e, Chars("monitorName")) = Some(JString(Unwrap(command.monitor)))
    /\ IsNone(command.monitor)
         => Mapped(OutClients, Listed)
              = Pick(LiveClients,
                     { k \in 1..Len(LiveClients) : PassesWorkspace(LiveClients[k]) }, 1)
    /\ Mapped(OutClients, Listed)
         = Pick(LiveClients,
                { k \in 1..Len(LiveClients) :
                    PassesWorkspace(LiveClients[k]) /\ PassesMonitor(LiveClients[k]) }, 1)

\* under the filter DP-1, a client on an unlisted monitor is dropped and the
\* client behind it, on monitor 0, is emitted with monitorName DP-1
C15_Witness ==
  /\ ClProjected /\ command.monitor = Some(Chars("DP-1")) /\ IsNone(command.workspace)
  /\ LiveClients = <<Client(7, 1, "one"), Client(0, 1, "one")>>
  /\ OutClients = <<Insert(Client(0, 1, "one"), Chars("monitorName"), JString(Chars("DP-1")))>>

\* ====================================================== the query channel
\* One call of get_info for 1..MaxRequests resources: the peer answers with
\* the texts of that many documents, concatenated.
QueryDocuments ==
  { Chars("[]"),
    Chars("[{\"a\":1}]"),
    Chars("{\"a\":[1,2]}"),
    Chars("[[1],[2,3]]"),
    \* a size with a fraction and a window title with an escaped quote
    Chars("[{\"size\":1.5,\"t\":\"a\\\"b\"}]"),
    \* a window title with the pair ][
    Chars("[{\"t\":\"x][y\"}]"),
    \* a window title with the pairs }[ and ]{
    Chars("[{\"t\":\"a}[b]{c\"}]") }

InitQuery ==
  /\ \E parts \in SeqsUpTo(QueryDocuments, MaxRequests) :
       parts # <<>> /\ reply = Response(parts)
  /\ command = Command("monitors", TRUE, None, FALSE, None)
  /\ config_workspaces = None
  /\ pc = "query"
  /\ status = None
  /\ socket = "unopened"
  /\ wire = <<>>
  /\ peer = "open"
  /\ sends = 0
  /\ lastRead = "none"
  /\ lastLen = 0
  /\ events = <<>>
  /\ scanned = 0
  /\ emits = 0
  /\ attempts = 0
  /\ result = NoResult
  /\ stdout = <<>>
  /\ stderr = ""
  /\ env = DefaultEnv
  /\ paths = EmptyMap
  /\ sent = <<>>
  /\ served = 0

\* hypr.rs lines 38-55: the call of get_info returns
Query ==
  /\ pc = "query"
  /\ result' = get_info(env, reply)
  /\ pc' = "queried"
  /\ UNCHANGED <<command, config_workspaces, status, socket, wire, peer, sends, lastRead,
                 lastLen, events, scanned, emits, attempts, reply, stdout, stderr>>
  /\ UNCHANGED aux

SpecQuery == InitQuery /\ [][Query]_vars

\* C16: when the peer answers a request for N resources, N in 1..3, with N
\* valid JSON documents, arrays or objects, concatenated without separator,
\* get_info returns exactly these N documents in request order, whatever
\* the documents hold, strings with the pairs ][, }[ and ]{ included.
C16_RoundTrip ==
  (pc = "queried" /\ reply.kind = "text") =>
    /\ result.ok
    /\ Len(result.val) = Len(reply.parts)
    /\ \A i \in 1..Len(reply.parts) : result.val[i] = from_str(reply.parts[i]).val

\* ==================================================== the path resolution
\* hypr.rs lines 98-109, with the environment drawn in the initial state.
Environments ==
  { Env(i, r, x, c, h) :
      i \in {None, Some(Chars("a1")), Some(Chars("b"))},
      r \in {None, Some(Chars("/run"))},
      x \in BOOLEAN,
      c \in {None, Some(Chars("/c"))},
      h \in {None, Some(Chars("/h"))} }

InitSocket ==
  /\ env \in { e \in Environments : e.runtime_exists => IsSome(e.runtime_dir) }
  /\ paths = EmptyMap
  /\ sent = <<>>
  /\ served = 0
  /\ command = Command("workspaces", FALSE, None, TRUE, None)
  /\ config_workspaces = None
  /\ pc = "resolve"
  /\ status = None
  /\ socket = "unopened"
  /\ wire = <<>>
  /\ peer = "open"
  /\ sends = 0
  /\ lastRead = "none"
  /\ lastLen = 0
  /\ events = <<>>
  /\ scanned = 0
  /\ emits = 0
  /\ attempts = 0
  /\ reply = NoReply
  /\ result = NoResult
  /\ stdout = <<>>
  /\ stderr = ""

\* get_info and open_events ask for the path of a socket (lines 11 and 42)
ResolveSocket ==
  /\ pc = "resolve"
  /\ \E name \in {Chars("socket"), Chars("socket2")} :
       /\ name \notin DOMAIN paths
       /\ paths' = Put(paths, name, get_hypr_socket(name, env))
  /\ UNCHANGED <<command, config_workspaces, pc, status, socket, wire, peer, sends,
                 lastRead, lastLen, events, scanned, emits, attempts, reply, result,
                 stdout, stderr, env, sent, served>>

\* get_config_workspaces asks for the path of the config file (line 67)
ResolveConfig ==
  /\ pc = "resolve"
  /\ Chars("config") \notin DOMAIN paths
  /\ paths' = Put(paths, Chars("config"), get_hypr_config(env))
  /\ UNCHANGED <<command, config_workspaces, pc, status, socket, wire, peer, sends,
                 lastRead, lastLen, events, scanned, emits, attempts, reply, result,
                 stdout, stderr, env, sent, served>>

NextSocket == ResolveSocket \/ ResolveConfig

SpecSocket == InitSocket /\ [][NextSocket]_vars

\* the base directory of the sockets: the runtime directory with /hypr
\* appended if that exists on disk, else /tmp/hypr
SocketBase ==
  IF IsSome(env.runtime_dir) /\ env.runtime_exists
  THEN Unwrap(env.runtime_dir) \o Chars("/hypr") ELSE Chars("/tmp/hypr")

\* C17: without instance signature the resolution of a socket path fails;
\* else the path is <base>/<instance>/.<name>.sock for the names socket and
\* socket2, where base is the runtime directory of the environment with the
\* fixed subpath appended when that exists on disk and the fixed temporary
\* directory only when it does not, the same base for both sockets.
C17_SocketPath ==
  \A name \in {Chars("socket"), Chars("socket2")} :
    name \in DOMAIN paths =>
      IF IsNone(env.instance) THEN ~paths[name].ok
      ELSE /\ paths[name].ok
           /\ paths[name].val
                = SocketBase \o Chars("/") \o Unwrap(env.instance) \o Chars("/.")
                    \o name \o Chars(".sock")

\* ======================================================== the event stream
\* The loop of main.rs lines 92-112 from the state in which main enters it,
\* with the history of the stream kept: the compositor writes records, the
\* channel stays open and every read succeeds.
\* records of the stream: a window event of 250 bytes that is no keyword of
\* any mode, a monitor event and a window event
StreamRecords ==
  { [name |-> Chars("activewindow"),
     bytes |-> Record("activewindow", Pad(250 - Len("activewindow") - 3))],
    [name |-> Chars("monitoradded"), bytes |-> Record("monitoradded", Bytes("1"))],
    [name |-> Chars("openwindow"), bytes |-> Record("openwindow", Bytes("a,b"))] }

\* what the query socket answered to the eventless emission
FirstReply(what) ==
  IF what = "monitors" THEN Docs(<<JArray(<<Monitor(0, "DP-1", 1, TRUE)>>)>>)
  ELSE IF what = "workspaces"
  THEN Docs(<<JArray(<<Workspace(1, "1", "DP-1")>>), JArray(<<Monitor(0, "DP-1", 1, TRUE)>>)>>)
  ELSE Docs(<<JArray(<<Client(0, 1, "one")>>), JArray(<<Monitor(0, "DP-1", 1, TRUE)>>)>>)

\* main after lines 56-90: config not asked for, the eventless emission
\* printed, the event socket open
InitStream ==
  /\ \E what \in Modes : command = Command(what, FALSE, None, FALSE, None)
  /\ config_workspaces = None
  /\ pc = "loop"
  /\ status = None
  /\ socket = "open"
  /\ wire = <<>>
  /\ peer = "open"
  /\ sends = 0
  /\ lastRead = "none"
  /\ lastLen = 0
  /\ events = <<>>
  /\ scanned = 0
  /\ emits = 0
  /\ attempts = 1
  /\ env = DefaultEnv
  /\ reply = FirstReply(command.what)
  /\ result = print_data(command, config_workspaces, env, reply)
  /\ stdout = <<result.val>>
  /\ stderr = ""
  /\ paths = EmptyMap
  /\ sent = <<>>
  /\ served = 0

\* the compositor writes a record on the event socket
SendStream ==
  /\ pc \in {"loop", "print"} /\ peer = "open" /\ sends < MaxSends
  /\ \E rec \in StreamRecords :
       /\ wire' = wire \o rec.bytes
       /\ sent' = Append(sent, rec)
  /\ sends' = sends + 1
  /\ UNCHANGED <<command, config_workspaces, pc, status, socket, peer, lastRead, lastLen,
                 events, scanned, emits, attempts, reply, result, stdout, stderr,
                 env, paths, served>>

\* the bytes written with the first k records
RECURSIVE WrittenUpTo(_, _)
WrittenUpTo(recs, k) == IF k = 0 THEN 0 ELSE WrittenUpTo(recs, k - 1) + Len(recs[k].bytes)

\* a read of the loop; when it ends in the call of print_data, the query of
\* that call is made after all bytes read so far were received
ReadStream ==
  /\ ReadTurn
  /\ served' = IF attempts' # attempts
               THEN WrittenUpTo(sent, Len(sent)) - Len(wire') ELSE served
  /\ UNCHANGED <<env, paths, sent>>

NextStream == SendStream \/ ReadStream \/ PrintData

SpecStream == InitStream /\ [][NextStream]_vars

\* a complete record with a keyword of the active mode has been sent, and no
\* print_data was called since its last byte was read
Missed ==
  \E k \in 1..Len(sent) :
    /\ Contains(Keywords(command.what), sent[k].name)
    /\ WrittenUpTo(sent, k) > served

\* C20: every complete record the compositor sends whose name is a keyword
\* of the active mode is followed by a print_data call that queries the state
\* after the record was received, however the stream falls into reads of
\* 256 bytes, while the channel stays open and the reads succeed.  print_data
\* is only called in a turn that read bytes; so when the loop waits with
\* every byte read, and the compositor may send nothing more, the call must
\* have been made for every keyword record sent.
C20_NoUpdateMissed == (pc = "loop" /\ wire = <<>>) => ~Missed

====
